---- MODULE Spec2Model ----
(***************************************************************************)
(* Model of the runtime library's Future ("Promise") state machine,        *)
(* src/runtime/async.h.  Futures live on a heap indexed 1..alloc; every    *)
(* field of Promise<T> is one heap component.  resolve/reject run the      *)
(* queued continuations synchronously on the caller's stack, so one action *)
(* of the model is one public call together with everything it triggers.  *)
(***************************************************************************)
EXTENDS Integers, Sequences, FiniteSets, TLC

\* ---------------------------------------------------------------- bounds
MaxFutures == 3      \* futures the application creates under Spec
MaxInputs == 2       \* source futures created under SpecAll
MaxThreads == 2      \* producer threads under SpecRaceThreads

Values == {1, 2}                \* values passed to resolve
Errors == {"e1", "e2"}
HandlerError == "eh"            \* what a raising user handler throws
ThenHandlers == {"inc", "raise"}
CatchHandlers == {"ok", "raise"}

\* ------------------------------------------------------------- payloads
\* PromiseResult<T> = variant<monostate, T, exception_ptr>; Promise<void>
\* stores no value, and Promise<vector<T>> stores a vector.
PNone == [tag |-> "none", value |-> 0, error |-> "", vec |-> <<>>]
PVoid == [tag |-> "void", value |-> 0, error |-> "", vec |-> <<>>]
PVal(v) == [tag |-> "value", value |-> v, error |-> "", vec |-> <<>>]
PErr(e) == [tag |-> "error", value |-> 0, error |-> e, vec |-> <<>>]
PVec(s) == [tag |-> "vec", value |-> 0, error |-> "", vec |-> s]

\* ------------------------------------------------ handlers and closures
NoHandler == [type |-> "none", name |-> "", agg |-> 0, i |-> 0, total |-> 0]
UserHandler(n) == [type |-> "user", name |-> n, agg |-> 0, i |-> 0, total |-> 0]
\* A handler that holds the future p it is registered on (or the resolve and
\* reject functions its executor was given) and, when run, calls resolve,
\* reject, then or catch_ on p.
ReentrantHandler(n, p) ==
    [type |-> "reentrant", name |-> n, agg |-> p, i |-> 0, total |-> 0]
InnerThenHandler == UserHandler("inc")
InnerCatchHandler == UserHandler("ok")
AllElemHandler(a, idx, n) ==
    [type |-> "allElem", name |-> "", agg |-> a, i |-> idx, total |-> n]
AllCatchHandler(a) ==
    [type |-> "allCatch", name |-> "", agg |-> a, i |-> 0, total |-> 0]
RaceOkHandler(r) ==
    [type |-> "raceOk", name |-> "", agg |-> r, i |-> 0, total |-> 0]
RaceErrHandler(r) ==
    [type |-> "raceErr", name |-> "", agg |-> r, i |-> 0, total |-> 0]

\* The four lambdas then() and catch_() register; next is nextPromise.
ThenOk(d, h) == [kind |-> "thenOk", next |-> d, h |-> h]
ThenErr(d) == [kind |-> "thenErr", next |-> d, h |-> NoHandler]
CatchOk(d) == [kind |-> "catchOk", next |-> d, h |-> NoHandler]
CatchErr(d, h) == [kind |-> "catchErr", next |-> d, h |-> h]
\* The two lambdas await_suspend registers: handle.resume() of the
\* coroutine whose own future is t.
ResumeOk(t) == [kind |-> "resumeOk", next |-> t, h |-> NoHandler]
ResumeErr(t) == [kind |-> "resumeErr", next |-> t, h |-> NoHandler]

IsOkKind(cb) == cb.kind \in {"thenOk", "catchOk", "resumeOk"}

\* A coroutine frame, kept with the future of its promise_type: the future
\* it awaits, its body, whether it suspended, how often it was resumed,
\* what its await yielded, and how often it settled its own future.
NoTask == [awaits |-> 0, body |-> "", suspended |-> FALSE, resumes |-> 0,
           observed |-> PNone, settles |-> 0]
TaskBodies == {"inc", "raise"}

\* ---------------------------------------------------------------- state
VARIABLES
    state_,          \* Promise::state_ of every future
    result_,         \* Promise::result_ (Promise<void>::error_)
    callbacks_,      \* Promise::callbacks_
    errorCallbacks_, \* Promise::errorCallbacks_
    results,         \* all(): the shared results vector, by aggregate
    completed,       \* all(): the shared completed counter, by aggregate
    settled,         \* race(): the shared atomic settled flag, by aggregate
    tasks,           \* Task: the coroutine frame of each task's future
    order,           \* the source futures in the order in which they settled
    origin,          \* how each future was obtained (root, then, catch, all)
    trace,           \* continuations invoked by the latest call, in order
    fired,           \* per derived future: times its two closures ran
    handled,         \* per derived future: arguments its handler was run on
    lastCall,        \* the latest public call
    \* race() with one producer thread per input (SpecRaceThreads)
    tpc,             \* where each producer thread is
    tout,            \* the outcome each thread settles its input with
    flag,            \* race(): the atomic settled flag
    rstate,          \* state_ of the race future
    rresult,         \* result_ of the race future
    winners,         \* the threads whose compare-and-swap succeeded
    writes,          \* writes made to state_ of the race future
    \* two js::any objects of the application (src/runtime/core.h)
    va,              \* the any object a
    vb,              \* the any object b
    copied,          \* ghost: b was copy-assigned from a, neither reassigned since
    vcall,           \* ghost: the latest operator call on a, b and its result
    \* js::object instances reached through std::shared_ptr<object>
    objects,         \* the objects allocated, by identity 1..Len(objects)
    ocall            \* ghost: the latest call on an object and its result

futureVars == <<state_, result_, callbacks_, errorCallbacks_, results,
                completed, settled, tasks, order, origin, trace, fired, handled,
                lastCall>>
threadVars == <<tpc, tout, flag, rstate, rresult, winners, writes>>
valueVars == <<va, vb, copied, vcall>>
recordVars == <<objects, ocall>>
extVars == <<threadVars, valueVars, recordVars>>
vars == <<futureVars, extVars>>

alloc == Len(state_)
Futures == 1..alloc

Heap == [state_ |-> state_, result_ |-> result_, callbacks_ |-> callbacks_,
         errorCallbacks_ |-> errorCallbacks_, results |-> results,
         completed |-> completed, settled |-> settled, tasks |-> tasks,
         trace |-> <<>>,
         fired |-> fired,
         handled |-> handled]

\* std::make_shared<Promise<T>>(): a new Pending future with empty queues.
NewFuture(H) ==
    [H EXCEPT !.state_ = Append(@, "Pending"),
              !.result_ = Append(@, PNone),
              !.callbacks_ = Append(@, <<>>),
              !.errorCallbacks_ = Append(@, <<>>),
              !.results = Append(@, <<>>),
              !.completed = Append(@, 0),
              !.settled = Append(@, FALSE),
              !.tasks = Append(@, NoTask),
              !.fired = Append(@, [ok |-> 0, err |-> 0]),
              !.handled = Append(@, <<>>)]

RECURSIVE resolve(_, _, _)
RECURSIVE reject(_, _, _)
RECURSIVE drain(_, _, _, _, _)
RECURSIVE invoke(_, _, _, _)
RECURSIVE callHandler(_, _, _, _)
RECURSIVE drain_reversed(_, _, _, _, _)
RECURSIVE resume(_, _)
RECURSIVE then(_, _, _)
RECURSIVE catch_(_, _, _)

\* What an application handler does with its argument: "inc" returns the
\* value plus one, "ok" returns nothing, "raise" throws HandlerError.
UserBehaviour(n, arg) ==
    CASE n = "inc" -> [raised |-> FALSE, ret |-> PVal(arg.value + 1), err |-> ""]
      [] n = "ok" -> [raised |-> FALSE, ret |-> PVoid, err |-> ""]
      [] n = "raise" -> [raised |-> TRUE, ret |-> PVoid, err |-> HandlerError]

\* The lambda all() hands to catch_: resultPromise->reject(error).
allCatchLambda_ignoresError(H, h, arg) == H

allCatchLambda(H, h, arg) == reject(H, h.agg, arg)

\* The lambda all() hands to then, storing in completion order.
allElemLambda_completionOrder(H, h, arg) ==
    LET H2 == [H EXCEPT !.results[h.agg][H.completed[h.agg] + 1] = arg.value,
                        !.completed[h.agg] = @ + 1]
    IN IF H2.completed[h.agg] = h.total
       THEN resolve(H2, h.agg, PVec(H2.results[h.agg]))
       ELSE H2

\* The lambda all() hands to then: (*results)[i] = value, and the aggregate
\* is resolved when the counter reaches total.
allElemLambda(H, h, arg) ==
    LET H2 == [H EXCEPT !.results[h.agg][h.i] = arg.value,
                        !.completed[h.agg] = @ + 1]
    IN IF H2.completed[h.agg] = h.total
       THEN resolve(H2, h.agg, PVec(H2.results[h.agg]))
       ELSE H2

\* The lambda race() hands to then: the first to swap the flag from false to
\* true resolves the race future.
raceOkLambda(H, h, arg) ==
    IF H.settled[h.agg] = FALSE
    THEN resolve([H EXCEPT !.settled[h.agg] = TRUE], h.agg, arg)
    ELSE H

\* The lambda race() hands to catch_, dropping the error.
raceErrLambda_ignoresError(H, h, arg) == H

\* The lambda race() hands to catch_: the same with reject.
raceErrLambda(H, h, arg) ==
    IF H.settled[h.agg] = FALSE
    THEN reject([H EXCEPT !.settled[h.agg] = TRUE], h.agg, arg)
    ELSE H

\* A user handler, or one of the two lambdas all() passes to then/catch_,
\* run for the derived future d.  Returns the heap after the call, whether
\* the handler raised, and what it returned or threw.
callHandler(H, d, h, arg) ==
    LET H1 == [H EXCEPT !.handled[d] = Append(@, arg)]
    IN CASE h.type = "user" ->
              LET b == UserBehaviour(h.name, arg)
              IN [heap |-> H1, raised |-> b.raised, ret |-> b.ret, err |-> b.err]
         [] h.type = "reentrant" ->
              LET p == h.agg
                  H2 == CASE h.name = "resolve" ->
                               resolve(H1, p, PVal(arg.value + 1))
                          [] h.name = "reject" ->
                               reject(H1, p, PErr(HandlerError))
                          [] h.name = "then" -> then(H1, p, InnerThenHandler)
                          [] h.name = "catch" -> catch_(H1, p, InnerCatchHandler)
              IN [heap |-> H2, raised |-> FALSE, ret |-> PVoid, err |-> ""]
         [] h.type = "allElem" ->
              [heap |-> allElemLambda(H1, h, arg), raised |-> FALSE,
               ret |-> PVoid, err |-> ""]
         [] h.type = "allCatch" ->
              [heap |-> allCatchLambda(H1, h, arg), raised |-> FALSE,
               ret |-> PVoid, err |-> ""]
         [] h.type = "raceOk" ->
              [heap |-> raceOkLambda(H1, h, arg), raised |-> FALSE,
               ret |-> PVoid, err |-> ""]
         [] h.type = "raceErr" ->
              [heap |-> raceErrLambda(H1, h, arg), raised |-> FALSE,
               ret |-> PVoid, err |-> ""]

\* What the body of a task does with what its co_await yielded: an error is
\* rethrown by await_resume and leaves the body; on a value "inc" returns
\* the value plus one and "raise" throws HandlerError.
TaskBody(b, obs) ==
    IF obs.tag = "error" THEN [raised |-> TRUE, ret |-> PVoid, err |-> obs]
    ELSE IF b = "inc"
         THEN [raised |-> FALSE, ret |-> PVal(obs.value + 1), err |-> PNone]
         ELSE [raised |-> TRUE, ret |-> PVoid, err |-> PErr(HandlerError)]

\* The coroutine from await_resume to its end, with unhandled_exception
\* left out.
resume_dropsException(H, t) ==
    LET f == H.tasks[t].awaits
        obs == H.result_[f]
        H1 == [H EXCEPT !.tasks[t].observed = obs]
        b == TaskBody(H.tasks[t].body, obs)
    IN IF b.raised THEN H1
       ELSE resolve([H1 EXCEPT !.tasks[t].settles = @ + 1], t, b.ret)

\* The coroutine of task t from await_resume to its end: await_resume
\* yields the value or rethrows the error of the awaited future; the body
\* ends in return_value (resolve) or unhandled_exception (reject).
resume(H, t) ==
    LET f == H.tasks[t].awaits
        obs == H.result_[f]
        H1 == [H EXCEPT !.tasks[t].observed = obs,
                        !.tasks[t].settles = @ + 1]
        b == TaskBody(H.tasks[t].body, obs)
    IN IF b.raised THEN reject(H1, t, b.err) ELSE resolve(H1, t, b.ret)

\* One continuation called with arg; p is the future it was registered on.
invoke(H, p, cb, arg) ==
    LET d == cb.next
        H1 == [H EXCEPT !.trace = Append(@, [on |-> p, cb |-> cb, arg |-> arg]),
                        !.fired[d] = IF IsOkKind(cb)
                                     THEN [@ EXCEPT !.ok = @ + 1]
                                     ELSE [@ EXCEPT !.err = @ + 1]]
    IN CASE cb.kind = "thenOk" ->
              LET r == callHandler(H1, d, cb.h, arg)
              IN IF r.raised THEN reject(r.heap, d, PErr(r.err))
                 ELSE resolve(r.heap, d, r.ret)
         [] cb.kind = "thenErr" -> reject(H1, d, arg)
         [] cb.kind = "catchOk" -> resolve(H1, d, arg)
         [] cb.kind = "catchErr" ->
              LET r == callHandler(H1, d, cb.h, arg)
              IN IF r.raised THEN reject(r.heap, d, PErr(r.err))
                 ELSE r.heap
         [] cb.kind \in {"resumeOk", "resumeErr"} ->
              resume([H1 EXCEPT !.tasks[d].resumes = @ + 1], d)

\* drain with the queue walked from its back.
drain_reversed(H, p, ok, i, arg) ==
    LET q == IF ok THEN H.callbacks_[p] ELSE H.errorCallbacks_[p]
    IN IF i > Len(q) THEN H
       ELSE drain_reversed(invoke(H, p, q[Len(q) + 1 - i], arg), p, ok,
                           i + 1, arg)

\* for (auto& callback : queue) callback(arg); the queue is read live.
drain(H, p, ok, i, arg) ==
    LET q == IF ok THEN H.callbacks_[p] ELSE H.errorCallbacks_[p]
    IN IF i > Len(q) THEN H
       ELSE drain(invoke(H, p, q[i], arg), p, ok, i + 1, arg)

\* resolve without the test of state_.
resolve_unguarded(H, p, v) ==
    LET H1 == [H EXCEPT !.state_[p] = "Fulfilled",
                        !.result_[p] = IF v.tag = "void" THEN @ ELSE v]
        H2 == drain(H1, p, TRUE, 1, v)
    IN [H2 EXCEPT !.callbacks_[p] = <<>>]

resolve(H, p, v) ==
    IF H.state_[p] # "Pending" THEN H
    ELSE LET H1 == [H EXCEPT !.state_[p] = "Fulfilled",
                             !.result_[p] = IF v.tag = "void" THEN @ ELSE v]
             H2 == drain(H1, p, TRUE, 1, v)
         IN [H2 EXCEPT !.callbacks_[p] = <<>>]

\* reject that sets the state and leaves result_ as it was.
reject_withoutPayload(H, p, e) ==
    IF H.state_[p] # "Pending" THEN H
    ELSE LET H1 == [H EXCEPT !.state_[p] = "Rejected"]
             H2 == drain(H1, p, FALSE, 1, e)
         IN [H2 EXCEPT !.errorCallbacks_[p] = <<>>]

reject(H, p, e) ==
    IF H.state_[p] # "Pending" THEN H
    ELSE LET H1 == [H EXCEPT !.state_[p] = "Rejected", !.result_[p] = e]
             H2 == drain(H1, p, FALSE, 1, e)
         IN [H2 EXCEPT !.errorCallbacks_[p] = <<>>]

\* What get() throws on a Pending future, and what std::get<X>(result_)
\* throws when result_ holds another alternative than X.
PendingError == "Promise is still pending"
BadVariantAccess == "std::bad_variant_access"

\* Promise<T>::get(): the value returned, as PVal, or the error thrown, as
\* PErr.
get(H, p) ==
    IF H.state_[p] = "Fulfilled"
    THEN (IF H.result_[p].tag = "value" THEN H.result_[p]
          ELSE PErr(BadVariantAccess))
    ELSE IF H.state_[p] = "Rejected"
    THEN (IF H.result_[p].tag = "error" THEN H.result_[p]
          ELSE PErr(BadVariantAccess))
    ELSE PErr(PendingError)

\* An executor: the calls it makes on the resolve and reject functions it
\* is given, in order, and whether it then throws HandlerError.
Executor(calls, raises) == [calls |-> calls, raises |-> raises]

\* executor(resolve, reject) up to its return or throw
RECURSIVE runExecutor(_, _, _, _)
runExecutor(H, p, calls, i) ==
    IF i > Len(calls) THEN H
    ELSE runExecutor(IF calls[i].tag = "value" THEN resolve(H, p, calls[i])
                     ELSE reject(H, p, calls[i]),
                     p, calls, i + 1)

\* Promise(Executor&&) that lets the exception of the executor go.
construct_withoutCatch(H, ex) ==
    runExecutor(NewFuture(H), Len(H.state_) + 1, ex.calls, 1)

\* Promise(Executor&&): the new future is Len(H.state_) + 1
construct(H, ex) ==
    LET p == Len(H.state_) + 1
        H1 == runExecutor(NewFuture(H), p, ex.calls, 1)
    IN IF ex.raises THEN reject(H1, p, PErr(HandlerError)) ELSE H1

\* The value a fulfil continuation of p receives: std::get<T>(result_),
\* nothing for Promise<void>.
StoredValue(H, p) ==
    IF H.result_[p].tag = "none" THEN PVoid ELSE H.result_[p]

\* addCallback that queues whatever the state.
addCallback_alwaysQueues(H, p, cb) ==
    [H EXCEPT !.callbacks_[p] = Append(@, cb)]

addCallback(H, p, cb) ==
    IF H.state_[p] = "Fulfilled" THEN invoke(H, p, cb, StoredValue(H, p))
    ELSE IF H.state_[p] = "Pending"
         THEN [H EXCEPT !.callbacks_[p] = Append(@, cb)]
         ELSE H

addErrorCallback(H, p, cb) ==
    IF H.state_[p] = "Rejected" THEN invoke(H, p, cb, H.result_[p])
    ELSE IF H.state_[p] = "Pending"
         THEN [H EXCEPT !.errorCallbacks_[p] = Append(@, cb)]
         ELSE H

\* then whose fulfil continuation hands the value on without the handler.
then_passesValueOn(H, p, h) ==
    LET d == Len(H.state_) + 1
        H1 == NewFuture(H)
        H2 == addCallback(H1, p, CatchOk(d))
    IN addErrorCallback(H2, p, ThenErr(d))

\* then that registers no reject continuation.
then_withoutErrorCallback(H, p, h) ==
    LET d == Len(H.state_) + 1
        H1 == NewFuture(H)
    IN addCallback(H1, p, ThenOk(d, h))

\* p->then(h): the heap afterwards; the derived future is Len(H.state_) + 1.
then(H, p, h) ==
    LET d == Len(H.state_) + 1
        H1 == NewFuture(H)
        H2 == addCallback(H1, p, ThenOk(d, h))
    IN addErrorCallback(H2, p, ThenErr(d))

\* catch_ that registers no fulfil continuation.
catch_withoutCallback(H, p, h) ==
    LET d == Len(H.state_) + 1
        H1 == NewFuture(H)
    IN addErrorCallback(H1, p, CatchErr(d, h))

\* p->catch_(h)
catch_(H, p, h) ==
    LET d == Len(H.state_) + 1
        H1 == NewFuture(H)
        H2 == addCallback(H1, p, CatchOk(d))
    IN addErrorCallback(H2, p, CatchErr(d, h))

\* await_suspend registering the fulfil lambda only.
await_suspend_fulfilOnly(H, f, t) == addCallback(H, f, ResumeOk(t))

\* f.await_suspend(handle) for the coroutine of task t.
await_suspend(H, f, t) ==
    addErrorCallback(addCallback(H, f, ResumeOk(t)), f, ResumeErr(t))

\* f.await_ready()
await_ready(H, f) == H.state_[f] # "Pending"

\* Calling a coroutine whose body is b and which awaits f: the frame and
\* its future t are made, and the body runs up to the co_await
\* (initial_suspend is suspend_never); it goes on at once if f is ready
\* and suspends otherwise.
spawn(H, f, b) ==
    LET t == Len(H.state_) + 1
        H1 == [NewFuture(H) EXCEPT !.tasks[t].awaits = f, !.tasks[t].body = b]
    IN IF await_ready(H1, f) THEN resume(H1, t)
       ELSE await_suspend([H1 EXCEPT !.tasks[t].suspended = TRUE], f, t)

\* The loop of all(): promises[i]->then(...)->catch_(...), for i = i..n.
\* Promise<void> declares no catch_; the call is modelled as the catch_ of
\* Promise<T>, which is what the code of all() relies on.
RECURSIVE allLoop(_, _, _, _)
allLoop(H, fs, agg, i) ==
    IF i > Len(fs) THEN H
    ELSE LET d == Len(H.state_) + 1
             H1 == then(H, fs[i], AllElemHandler(agg, i, Len(fs)))
             H2 == catch_(H1, d, AllCatchHandler(agg))
         IN allLoop(H2, fs, agg, i + 1)

\* Promise<T>::all(promises); the aggregate is Len(H.state_) + 1.
all(H, fs) ==
    LET agg == Len(H.state_) + 1
        H1 == NewFuture(H)
    IN IF Len(fs) = 0 THEN resolve(H1, agg, PVec(<<>>))
       ELSE allLoop([H1 EXCEPT !.results[agg] = [i \in 1..Len(fs) |-> 0]],
                    fs, agg, 1)

\* The loop of race(): promise->then(...)->catch_(...) for every input.
RECURSIVE raceLoop(_, _, _, _)
raceLoop(H, fs, r, i) ==
    IF i > Len(fs) THEN H
    ELSE LET d == Len(H.state_) + 1
             H1 == then(H, fs[i], RaceOkHandler(r))
             H2 == catch_(H1, d, RaceErrHandler(r))
         IN raceLoop(H2, fs, r, i + 1)

\* Promise<T>::race(promises); the race future is Len(H.state_) + 1.
race(H, fs) == raceLoop(NewFuture(H), fs, Len(H.state_) + 1, 1)

Root == [kind |-> "root", src |-> 0, h |-> NoHandler, inputs |-> <<>>]
Derived(k, p, h) == [kind |-> k, src |-> p, h |-> h, inputs |-> <<>>]
Aggregate(fs) == [kind |-> "all", src |-> 0, h |-> NoHandler, inputs |-> fs]

\* The origins of the futures all(fs) creates, in allocation order.
RECURSIVE allOrigins(_, _, _, _)
allOrigins(fs, agg, base, i) ==
    IF i > Len(fs) THEN <<>>
    ELSE <<Derived("then", fs[i], AllElemHandler(agg, i, Len(fs))),
           Derived("catch", base + 1, AllCatchHandler(agg))>>
         \o allOrigins(fs, agg, base + 2, i + 1)

TaskFuture(f, b) == [kind |-> "task", src |-> f, h |-> UserHandler(b), inputs |-> <<>>]
RaceFuture(fs) == [kind |-> "race", src |-> 0, h |-> NoHandler, inputs |-> fs]

\* The origins of the futures race(fs) creates, in allocation order.
RECURSIVE raceOrigins(_, _, _, _)
raceOrigins(fs, r, base, i) ==
    IF i > Len(fs) THEN <<>>
    ELSE <<Derived("then", fs[i], RaceOkHandler(r)),
           Derived("catch", base + 1, RaceErrHandler(r))>>
         \o raceOrigins(fs, r, base + 2, i + 1)

\* The futures a call allocated from inside handlers, in the order of their
\* allocation: one for every handler run that called then or catch_.
RECURSIVE nestedOrigins(_, _)
nestedOrigins(t, i) ==
    IF i > Len(t) THEN <<>>
    ELSE LET h == t[i].cb.h
         IN (IF h.type = "reentrant" /\ h.name = "then"
             THEN <<Derived("then", h.agg, InnerThenHandler)>>
             ELSE IF h.type = "reentrant" /\ h.name = "catch"
             THEN <<Derived("catch", h.agg, InnerCatchHandler)>>
             ELSE <<>>) \o nestedOrigins(t, i + 1)

Call(op, p, arg) == [op |-> op, p |-> p, arg |-> arg]

\* Writes a heap back into the variables.
Store(H) ==
    /\ state_' = H.state_
    /\ result_' = H.result_
    /\ callbacks_' = H.callbacks_
    /\ errorCallbacks_' = H.errorCallbacks_
    /\ results' = H.results
    /\ completed' = H.completed
    /\ settled' = H.settled
    /\ tasks' = H.tasks
    /\ trace' = H.trace
    /\ fired' = H.fired
    /\ handled' = H.handled

\* ======================================================================
\* js::any and the values it holds, src/runtime/core.h
\* ======================================================================
\* ------------------------------------------------------ number (double)
\* js::number wraps a double (core.h:55-63).  A double is modelled as an
\* exact fraction in lowest terms, or NaN, or an infinity (num carries the
\* sign); the sign of a zero is not kept.
RECURSIVE gcd(_, _)
gcd(x, y) == IF y = 0 THEN x ELSE gcd(y, x % y)

Abs(x) == IF x < 0 THEN -x ELSE x
Sign(x) == IF x > 0 THEN 1 ELSE IF x < 0 THEN -1 ELSE 0

Fin(n, d) ==
    LET g == gcd(Abs(n), d)
    IN  [cls |-> "fin", num |-> n \div g, den |-> d \div g]
NaN == [cls |-> "nan", num |-> 0, den |-> 1]
Inf(sgn) == [cls |-> "inf", num |-> sgn, den |-> 1]
Zero == Fin(0, 1)
One == Fin(1, 1)

\* double + double
dAdd(x, y) ==
    IF x.cls = "nan" \/ y.cls = "nan" THEN NaN
    ELSE IF x.cls = "inf" /\ y.cls = "inf"
         THEN IF x.num = y.num THEN x ELSE NaN
    ELSE IF x.cls = "inf" THEN x
    ELSE IF y.cls = "inf" THEN y
    ELSE Fin(x.num * y.den + y.num * x.den, x.den * y.den)

\* double - double
dSub(x, y) == dAdd(x, [y EXCEPT !.num = -y.num])

\* double * double
dMul(x, y) ==
    IF x.cls = "nan" \/ y.cls = "nan" THEN NaN
    ELSE IF x.cls = "inf" \/ y.cls = "inf"
         THEN IF x.num = 0 \/ y.num = 0 THEN NaN
              ELSE Inf(Sign(x.num) * Sign(y.num))
    ELSE Fin(x.num * y.num, x.den * y.den)

\* double / double
dDiv(x, y) ==
    IF x.cls = "nan" \/ y.cls = "nan" THEN NaN
    ELSE IF x.cls = "inf"
         THEN IF y.cls = "inf" THEN NaN
              ELSE Inf(x.num * (IF y.num < 0 THEN -1 ELSE 1))
    ELSE IF y.cls = "inf" THEN Zero
    ELSE IF y.num = 0
         THEN IF x.num = 0 THEN NaN ELSE Inf(Sign(x.num))
    ELSE Fin(x.num * y.den * Sign(y.num), x.den * Abs(y.num))

\* std::fmod: the remainder carries the sign of the dividend
fmod(x, y) ==
    IF x.cls = "nan" \/ y.cls = "nan" THEN NaN
    ELSE IF x.cls = "inf" THEN NaN
    ELSE IF y.cls = "inf" THEN x
    ELSE IF y.num = 0 THEN NaN
    ELSE Fin(Sign(x.num) * ((Abs(x.num) * y.den) % (Abs(y.num) * x.den)),
             x.den * y.den)

\* double == double: NaN equals nothing, itself included
dEq(x, y) == x.cls # "nan" /\ y.cls # "nan" /\ x = y

\* -------------------------------------------------------- string (text)
\* js::string wraps a std::string (core.h:114): a sequence of characters.
DigitChars == <<"0", "1", "2", "3", "4", "5", "6", "7", "8", "9">>

RECURSIVE Digits(_)
Digits(n) ==
    IF n < 10 THEN <<DigitChars[n + 1]>>
    ELSE Digits(n \div 10) \o <<DigitChars[(n % 10) + 1]>>

\* std::to_string(long long): the decimal digits, "-" first when negative
to_string_ll(n) == (IF n < 0 THEN <<"-">> ELSE <<>>) \o Digits(Abs(n))

\* std::to_string(double) formats with "%f": six digits after the point,
\* the exact value rounded half to even.
to_string_double(x) ==
    IF x.cls = "nan" THEN <<"n", "a", "n">>
    ELSE IF x.cls = "inf"
         THEN (IF x.num < 0 THEN <<"-">> ELSE <<>>) \o <<"i", "n", "f">>
    ELSE LET scaled == Abs(x.num) * 1000000
             q == scaled \div x.den
             r == scaled % x.den
             m == IF 2 * r > x.den \/ (2 * r = x.den /\ q % 2 = 1)
                  THEN q + 1 ELSE q
         IN  (IF x.num < 0 THEN <<"-">> ELSE <<>>)
             \o Digits(m \div 1000000) \o <<".">>
             \o [i \in 1..6 |-> DigitChars[((m \div (10 ^ (6 - i))) % 10) + 1]]

\* ------------------------------------------------------------------ any
\* any holds variant<undefined_t, null_t, bool, number, string,
\* array<any>, object> value_ (core.h:436-446): tag is the active
\* alternative and one of the other fields its content.  array<any> holds
\* its elements in a std::vector (core.h:192) and object its properties in
\* a std::unordered_map<std::string, std::any> next to a shared prototype
\* pointer (core.h:373-374), each by value inside the variant.
NoProps == [k \in {} |-> 0]
emptyObject == [props |-> NoProps, proto |-> <<>>]

undefined ==
    [tag |-> "Undefined", bool |-> FALSE, num |-> Zero, text |-> <<>>,
     elems |-> <<>>, obj |-> emptyObject]
null == [undefined EXCEPT !.tag = "Null"]
Boolean(v) == [undefined EXCEPT !.tag = "Boolean", !.bool = v]
Number(x) == [undefined EXCEPT !.tag = "Number", !.num = x]
Text(s) == [undefined EXCEPT !.tag = "Text", !.text = s]
Sequence(es) == [undefined EXCEPT !.tag = "Sequence", !.elems = es]
Record(o) == [undefined EXCEPT !.tag = "Record", !.obj = o]

\* A property slot is a std::any: the C++ type stored and the value.
Slot(cxx, v) == [cxx |-> cxx, val |-> v]

\* set as it would be were it to assign a map holding the one entry
set_replacesAll(o, key, slot) == [o EXCEPT !.props = [k \in {key} |-> slot]]

\* object::set<T>(key, value): properties_[key] = value
set(o, key, slot) ==
    [o EXCEPT !.props = [k \in (DOMAIN o.props) \cup {key} |->
                            IF k = key THEN slot ELSE o.props[k]]]

\* object::has: own properties only
has(o, key) == key \in DOMAIN o.props

\* object::remove: properties_.erase(key) > 0
remove(o, key) ==
    [obj |-> [o EXCEPT !.props = [k \in (DOMAIN o.props) \ {key} |->
                                     o.props[k]]],
     erased |-> key \in DOMAIN o.props]

\* object::create(proto): a new object whose prototype is proto
create(proto) == [props |-> NoProps, proto |-> <<proto>>]

\* object::get_as_js_any: own properties only; the std::any is converted
\* when it holds one of seven types and is Undefined for any other.
get_as_js_any(o, key) ==
    IF key \in DOMAIN o.props
    THEN IF o.props[key].cxx \in {"string", "number", "bool", "any",
                                  "object", "undefined_t", "null_t"}
         THEN o.props[key].val
         ELSE undefined
    ELSE undefined

\* object::operator[] of core.cpp: own property, else the prototype chain
RECURSIVE objectIndex(_, _)
objectIndex(o, key) ==
    IF key \in DOMAIN o.props THEN o.props[key].val
    ELSE IF o.proto # <<>> THEN objectIndex(o.proto[1], key)
    ELSE undefined

\* object::hasProperty of core.cpp
RECURSIVE hasProperty(_, _)
hasProperty(o, key) ==
    \/ key \in DOMAIN o.props
    \/ o.proto # <<>> /\ hasProperty(o.proto[1], key)

\* any::toString
toString(v) ==
    IF v.tag = "Text" THEN v.text
    ELSE IF v.tag = "Number" THEN to_string_double(v.num)
    ELSE IF v.tag = "Boolean"
         THEN IF v.bool THEN <<"t", "r", "u", "e">>
              ELSE <<"f", "a", "l", "s", "e">>
    ELSE IF v.tag = "Null" THEN <<"n", "u", "l", "l">>
    ELSE IF v.tag = "Undefined"
         THEN <<"u", "n", "d", "e", "f", "i", "n", "e", "d">>
    ELSE <<"[", "o", "b", "j", "e", "c", "t", "]">>

\* any::operator+(const any&)
anyPlus(l, r) ==
    IF l.tag = "Number" /\ r.tag = "Number"
    THEN Number(dAdd(l.num, r.num))
    ELSE IF l.tag = "Text" THEN Text(l.text \o toString(r))
    ELSE IF r.tag = "Text" THEN Text(toString(l) \o r.text)
    ELSE IF l.tag = "Number" \/ r.tag = "Number"
         THEN Number(dAdd(IF l.tag = "Number" THEN l.num ELSE Zero,
                          IF r.tag = "Number" THEN r.num ELSE Zero))
    ELSE undefined

\* any::operator*, operator/, operator-, operator% (const number&)
anyTimes(l, n) == IF l.tag = "Number" THEN Number(dMul(l.num, n)) ELSE undefined
anyDivide(l, n) == IF l.tag = "Number" THEN Number(dDiv(l.num, n)) ELSE undefined
anyMinus(l, n) == IF l.tag = "Number" THEN Number(dSub(l.num, n)) ELSE undefined
anyModulo(l, n) == IF l.tag = "Number" THEN Number(fmod(l.num, n)) ELSE undefined

ArithOps == {"*", "/", "-", "%"}
anyArith(op, l, n) ==
    IF op = "*" THEN anyTimes(l, n)
    ELSE IF op = "/" THEN anyDivide(l, n)
    ELSE IF op = "-" THEN anyMinus(l, n)
    ELSE anyModulo(l, n)

\* any::operator==(const any&).  la and ra are the any objects compared:
\* for array and object the code compares the addresses of the two
\* alternatives, each of which lies inside its own any object.
anyEquals(la, x, ra, y) ==
    IF x.tag = y.tag
    THEN IF x.tag \in {"Undefined", "Null"} THEN TRUE
         ELSE IF x.tag = "Boolean" THEN x.bool = y.bool
         ELSE IF x.tag = "Number" THEN dEq(x.num, y.num)
         ELSE IF x.tag = "Text" THEN x.text = y.text
         ELSE la = ra
    ELSE FALSE

\* any::operator[](const string&)
indexString(v, key) ==
    IF v.tag = "Record" /\ has(v.obj, key)
    THEN get_as_js_any(v.obj, key)
    ELSE undefined

\* the key lookup as it would be with std::to_string(val) on every number
numberKey_alwaysFraction(n) == to_string_double(n)

\* the key any::operator[](const number&) looks up
numberKey(n) ==
    IF n.cls = "fin" /\ n.den = 1 THEN to_string_ll(n.num)
    ELSE to_string_double(n)

\* any::operator[](const number&)
indexNumber(v, n) == indexString(v, numberKey(n))

\* any::operator[](int)
indexInt(v, i) == indexNumber(v, Fin(i, 1))

\* delete_property(any&, property): the object is taken out, changed and
\* put back
delete_property(v, property) ==
    IF v.tag = "Record"
    THEN LET r == remove(v.obj, property)
         IN  [val |-> Record(r.obj), result |-> r.erased]
    ELSE [val |-> v, result |-> TRUE]

\* std::get<array<any>>(a.variant()).push(value), on an array-holding any
push(v, value) == [v EXCEPT !.elems = Append(v.elems, value)]

\* std::get<object>(a.variant()).set(key, value), on an object-holding any
setProperty(v, key, slot) == [v EXCEPT !.obj = set(v.obj, key, slot)]

\* ------------------------------------------------- array-delegating methods
\* any::operator bool
anyToBool(v) ==
    IF v.tag = "Boolean" THEN v.bool
    ELSE IF v.tag = "Number" THEN ~dEq(v.num, Zero)
    ELSE IF v.tag = "Text" THEN v.text # <<>>
    ELSE IF v.tag \in {"Undefined", "Null"} THEN FALSE
    ELSE TRUE

\* std::isnan
isnan(x) == x.cls = "nan"

\* to_boolean(const any&), type_guards.h
to_boolean(v) ==
    IF v.tag \in {"Undefined", "Null"} THEN FALSE
    ELSE IF v.tag = "Boolean" THEN v.bool
    ELSE IF v.tag = "Number" THEN ~dEq(v.num, Zero) /\ ~isnan(v.num)
    ELSE IF v.tag = "Text" THEN v.text # <<>>
    ELSE TRUE

\* toBoolean(const any&), core.cpp; nothing in its try block throws
toBoolean(v) ==
    IF v.tag \in {"Undefined", "Null"} THEN FALSE
    ELSE IF v.tag = "Boolean" THEN v.bool
    ELSE IF v.tag = "Number" THEN ~isnan(v.num) /\ ~dEq(v.num, Zero)
    ELSE IF v.tag = "Text" THEN v.text # <<>>
    ELSE TRUE

Coercions == {"operator bool", "to_boolean", "toBoolean"}
coerce(fn, v) ==
    CASE fn = "operator bool" -> anyToBool(v)
      [] fn = "to_boolean" -> to_boolean(v)
      [] fn = "toBoolean" -> toBoolean(v)

\* The callbacks the application passes: a predicate over elements, and a
\* reducer over an accumulator and an element.
Predicates == {"isNumber", "truthy"}
Reducers == {"plus", "last"}
applyPredicate(f, e) == IF f = "isNumber" THEN e.tag = "Number" ELSE anyToBool(e)
applyReducer(f, acc, e) == IF f = "plus" THEN anyPlus(acc, e) ELSE e

\* A method's outcome: what it returns (res for a value, ok for a bool) and
\* the arguments its callback was invoked with, in order.
MethodResult(res, ok, calls) == [res |-> res, ok |-> ok, calls |-> calls]

\* array<T>::map: for (elem : elements_) result.push(func(elem))
RECURSIVE arrayMapLoop(_, _, _, _)
arrayMapLoop(es, f, i, result) ==
    IF i > Len(es) THEN result
    ELSE arrayMapLoop(es, f, i + 1,
                      Append(result, Boolean(applyPredicate(f, es[i]))))
arrayMap(es, f) == MethodResult(Sequence(arrayMapLoop(es, f, 1, <<>>)), FALSE, es)

\* array<T>::filter
RECURSIVE arrayFilterLoop(_, _, _, _)
arrayFilterLoop(es, f, i, result) ==
    IF i > Len(es) THEN result
    ELSE arrayFilterLoop(es, f, i + 1,
                         IF applyPredicate(f, es[i])
                         THEN Append(result, es[i]) ELSE result)
arrayFilter(es, f) ==
    MethodResult(Sequence(arrayFilterLoop(es, f, 1, <<>>)), FALSE, es)

\* array<T>::reduce
RECURSIVE arrayReduceLoop(_, _, _, _)
arrayReduceLoop(es, f, i, result) ==
    IF i > Len(es) THEN result
    ELSE arrayReduceLoop(es, f, i + 1, applyReducer(f, result, es[i]))
arrayReduce(es, f, init) == MethodResult(arrayReduceLoop(es, f, 1, init), FALSE, es)

\* array<T>::forEach
arrayForEach(es, f) == MethodResult(undefined, FALSE, es)

\* array<T>::findIndex: the index of the first element func accepts (from
\* 0), -1 when there is none; the loop stops there.
RECURSIVE arrayFindIndexLoop(_, _, _)
arrayFindIndexLoop(es, f, i) ==
    IF i > Len(es) THEN -1
    ELSE IF applyPredicate(f, es[i]) THEN i - 1
    ELSE arrayFindIndexLoop(es, f, i + 1)
callsUpTo(es, idx) == IF idx = -1 THEN es ELSE SubSeq(es, 1, idx + 1)
arrayFindIndex(es, f) ==
    LET idx == arrayFindIndexLoop(es, f, 1)
    IN  MethodResult(Number(Fin(idx, 1)), FALSE, callsUpTo(es, idx))

\* array<T>::find: the first element func accepts, T() when there is none
arrayFind(es, f) ==
    LET idx == arrayFindIndexLoop(es, f, 1)
    IN  MethodResult(IF idx = -1 THEN undefined ELSE es[idx + 1], FALSE,
                 callsUpTo(es, idx))

\* array<T>::some
arraySome(es, f) ==
    LET idx == arrayFindIndexLoop(es, f, 1)
    IN  MethodResult(undefined, idx # -1, callsUpTo(es, idx))

\* array<T>::every: false at the first element func refuses
RECURSIVE arrayEveryLoop(_, _, _)
arrayEveryLoop(es, f, i) ==
    IF i > Len(es) THEN -1
    ELSE IF ~applyPredicate(f, es[i]) THEN i - 1
    ELSE arrayEveryLoop(es, f, i + 1)
arrayEvery(es, f) ==
    LET idx == arrayEveryLoop(es, f, 1)
    IN  MethodResult(undefined, idx = -1, callsUpTo(es, idx))

\* array<T>::includes: elem == value with any::operator==; the elements lie
\* inside the array and value outside it, so no two are the same object
RECURSIVE arrayIncludesLoop(_, _, _)
arrayIncludesLoop(es, value, i) ==
    IF i > Len(es) THEN FALSE
    ELSE IF anyEquals("element", es[i], "argument", value) THEN TRUE
    ELSE arrayIncludesLoop(es, value, i + 1)
arrayIncludes(es, value) ==
    MethodResult(undefined, arrayIncludesLoop(es, value, 1), <<>>)

\* any::map, filter, reduce, forEach, find, findIndex, some, every and
\* includes: the array's method when the any holds an array, a default
\* otherwise.  method names the one called, f its callback, arg the
\* initial value of reduce or the value of includes.
Methods ==
    {"map", "filter", "reduce", "forEach", "find", "findIndex", "some",
     "every", "includes"}

\* The method of the array itself.
arrayMethod(method, es, f, arg) ==
    IF method = "map" THEN arrayMap(es, f)
    ELSE IF method = "filter" THEN arrayFilter(es, f)
    ELSE IF method = "reduce" THEN arrayReduce(es, f, arg)
    ELSE IF method = "forEach" THEN arrayForEach(es, f)
    ELSE IF method = "find" THEN arrayFind(es, f)
    ELSE IF method = "findIndex" THEN arrayFindIndex(es, f)
    ELSE IF method = "some" THEN arraySome(es, f)
    ELSE IF method = "every" THEN arrayEvery(es, f)
    ELSE arrayIncludes(es, arg)

\* the default as it would be were every method to answer Undefined/false
anyDefault_undefined(method, arg) == MethodResult(undefined, FALSE, <<>>)

\* What each method returns when the any holds no array.
anyDefault(method, arg) ==
    IF method \in {"map", "filter"} THEN MethodResult(Sequence(<<>>), FALSE, <<>>)
    ELSE IF method = "reduce" THEN MethodResult(arg, FALSE, <<>>)
    ELSE IF method = "findIndex" THEN MethodResult(Number(Fin(-1, 1)), FALSE, <<>>)
    ELSE IF method = "every" THEN MethodResult(undefined, TRUE, <<>>)
    ELSE MethodResult(undefined, FALSE, <<>>)

anyMethod(method, v, f, arg) ==
    IF v.tag = "Sequence" THEN arrayMethod(method, v.elems, f, arg)
    ELSE anyDefault(method, arg)

\* ---------------------------------------------------------------- slice

\* static_cast<size_t>(int), and the implicit conversion of an int argument
\* to a size_t parameter: a negative i becomes 2^64 + i, kept as the pair
\* (wrapped, i) because only its order against a vector size is used
SizeT(i) == [wrapped |-> i < 0, n |-> i]

\* x >= elements_.size() for a size_t x
sizeAtLeast(x, size) == x.wrapped \/ x.n >= size

\* std::min(end, elements_.size())
sizeMin(x, size) == IF sizeAtLeast(x, size) THEN size ELSE x.n

\* std::max(0, i)
max0(i) == IF i > 0 THEN i ELSE 0

\* array<T>::slice(size_t start)
arraySlice(es, start) ==
    IF sizeAtLeast(start, Len(es))
    THEN <<>>
    ELSE SubSeq(es, start.n + 1, Len(es))

\* array<T>::slice(size_t start, size_t end)
arraySliceTo(es, start, end) ==
    IF sizeAtLeast(start, Len(es))
    THEN <<>>
    ELSE LET actualEnd == sizeMin(end, Len(es))
         IN  IF start.n >= actualEnd
             THEN <<>>
             ELSE SubSeq(es, start.n + 1, actualEnd)

\* any::slice(int start)
anySlice(v, start) ==
    IF v.tag = "Sequence"
    THEN Sequence(arraySlice(v.elems, SizeT(max0(start))))
    ELSE Sequence(<<>>)

\* any::slice(int start, int end)
anySliceTo(v, start, end) ==
    IF v.tag = "Sequence"
    THEN Sequence(arraySliceTo(v.elems, SizeT(max0(start)), SizeT(max0(end))))
    ELSE Sequence(<<>>)

\* -------------------------------------------------- application inputs
MaxElems == 2        \* elements pushed onto one array

NumberInputs == {Fin(-1, 1), Zero, Fin(1, 1), Fin(3, 2), NaN}
TextInputs == {<<>>, <<"x">>, <<"2">>}
Keys == {<<"0">>, <<"-", "1">>}
LookupKeys == Keys \cup {<<"1">>}
ElemInputs == {Number(Fin(1, 1))}
SlotInputs ==
    {Slot("number", Number(Fin(1, 1))), Slot("array", Sequence(<<>>))}
protoObject == set(emptyObject, <<"0">>, Slot("number", Number(Fin(2, 1))))
InputValues ==
    {undefined, null, Sequence(<<>>), Record(emptyObject),
     Record(create(protoObject))}
    \cup {Boolean(v) : v \in BOOLEAN}
    \cup {Number(x) : x \in NumberInputs}
    \cup {Text(s) : s \in TextInputs}

AnyObjects == {"a", "b"}
NoCall ==
    [op |-> "none", l |-> "a", r |-> "a", key |-> <<>>, rhs |-> Zero,
     res |-> undefined, ok |-> FALSE, fn |-> "none", arg |-> undefined,
     calls |-> <<>>, start |-> 0, end |-> 0, nargs |-> 0]

\* any a; any b;  (any() : value_(undefined), core.h:450)
InitValue ==
    /\ va = undefined
    /\ vb = undefined
    /\ copied = FALSE
    /\ vcall = NoCall

\* A call on object id with a key: ok is a bool returned (or, for get,
\* whether it returned at all) and res a value returned.
OCall(op, id, key, ok, res) ==
    [op |-> op, id |-> id, key |-> key, ok |-> ok, res |-> res]

\* no object allocated yet
InitRecord ==
    /\ objects = <<>>
    /\ ocall = OCall("none", 0, <<>>, FALSE, undefined)

\* ------------------------------------------------------------ threads
Threads == 1..MaxThreads
Outcomes == {PVal(v) : v \in Values} \cup {PErr(e) : e \in Errors}

\* The race future and its flag as race() leaves them, no thread started.
InitThreads ==
    /\ tpc = [t \in Threads |-> "idle"]
    /\ tout = [t \in Threads |-> PNone]
    /\ flag = FALSE
    /\ rstate = "Pending"
    /\ rresult = PNone
    /\ winners = {}
    /\ writes = 0

Init ==
    /\ InitThreads
    /\ InitValue
    /\ InitRecord
    /\ state_ = <<>>
    /\ result_ = <<>>
    /\ callbacks_ = <<>>
    /\ errorCallbacks_ = <<>>
    /\ results = <<>>
    /\ completed = <<>>
    /\ settled = <<>>
    /\ tasks = <<>>
    /\ order = <<>>
    /\ origin = <<>>
    /\ trace = <<>>
    /\ fired = <<>>
    /\ handled = <<>>
    /\ lastCall = Call("none", 0, PNone)

\* new Promise<T>() whose resolve/reject the application keeps.
NewPromise ==
    /\ alloc < MaxFutures
    /\ Store(NewFuture(Heap))
    /\ origin' = Append(origin, Root)
    /\ lastCall' = Call("new", alloc + 1, PNone)
    /\ UNCHANGED <<order, extVars>>

Resolve(p, v) ==
    /\ origin[p].kind = "root"
    /\ Store(resolve(Heap, p, PVal(v)))
    /\ origin' = origin \o nestedOrigins(trace', 1)
    /\ lastCall' = Call("resolve", p, PVal(v))
    /\ UNCHANGED <<order, extVars>>

Reject(p, e) ==
    /\ origin[p].kind = "root"
    /\ Store(reject(Heap, p, PErr(e)))
    /\ origin' = origin \o nestedOrigins(trace', 1)
    /\ lastCall' = Call("reject", p, PErr(e))
    /\ UNCHANGED <<order, extVars>>

Then(p, n) ==
    /\ alloc < MaxFutures
    /\ Store(then(Heap, p, UserHandler(n)))
    /\ origin' = Append(origin, Derived("then", p, UserHandler(n)))
                     \o nestedOrigins(trace', 1)
    /\ lastCall' = Call("then", p, PNone)
    /\ UNCHANGED <<order, extVars>>

Catch(p, n) ==
    /\ alloc < MaxFutures
    /\ Store(catch_(Heap, p, UserHandler(n)))
    /\ origin' = Append(origin, Derived("catch", p, UserHandler(n)))
                     \o nestedOrigins(trace', 1)
    /\ lastCall' = Call("catch", p, PNone)
    /\ UNCHANGED <<order, extVars>>

Next ==
    \/ NewPromise
    \/ \E p \in Futures, v \in Values : Resolve(p, v)
    \/ \E p \in Futures, e \in Errors : Reject(p, e)
    \/ \E p \in Futures, n \in ThenHandlers : Then(p, n)
    \/ \E p \in Futures, n \in CatchHandlers : Catch(p, n)

Spec == Init /\ [][Next]_vars

\* --------------------------------------- handlers that use their own future
ReentrantCalls == {"resolve", "reject", "then", "catch"}

\* p->then(h) where h calls resolve, reject, then or catch_ on p
ThenReentrant(p, n) ==
    /\ alloc < MaxFutures
    /\ Store(then(Heap, p, ReentrantHandler(n, p)))
    /\ origin' = Append(origin, Derived("then", p, ReentrantHandler(n, p)))
                     \o nestedOrigins(trace', 1)
    /\ lastCall' = Call("then", p, PNone)
    /\ UNCHANGED <<order, extVars>>

\* p->catch_(h) where h calls resolve, reject, then or catch_ on p
CatchReentrant(p, n) ==
    /\ alloc < MaxFutures
    /\ Store(catch_(Heap, p, ReentrantHandler(n, p)))
    /\ origin' = Append(origin, Derived("catch", p, ReentrantHandler(n, p)))
                     \o nestedOrigins(trace', 1)
    /\ lastCall' = Call("catch", p, PNone)
    /\ UNCHANGED <<order, extVars>>

\* one value and one error are enough here: what a handler passes to
\* resolve or reject differs from both
ReentrantValue == CHOOSE v \in Values : TRUE
ReentrantError == CHOOSE e \in Errors : TRUE

NextReentrant ==
    \/ NewPromise
    \/ \E p \in Futures : Resolve(p, ReentrantValue)
    \/ \E p \in Futures : Reject(p, ReentrantError)
    \/ \E p \in Futures, n \in ThenHandlers : Then(p, n)
    \/ \E p \in Futures, n \in CatchHandlers : Catch(p, n)
    \/ \E p \in Futures, n \in ReentrantCalls : ThenReentrant(p, n)
    \/ \E p \in Futures, n \in ReentrantCalls : CatchReentrant(p, n)

SpecReentrant == Init /\ [][NextReentrant]_vars

\* ------------------------------------------- executor constructor and get
ExecutorCalls == {PVal(ReentrantValue), PErr(ReentrantError)}
Executors ==
    {Executor(calls, raises) :
        calls \in UNION {[1..n -> ExecutorCalls] : n \in 0..2},
        raises \in BOOLEAN}

\* new Promise<T>(executor)
Construct(ex) ==
    /\ alloc < MaxFutures
    /\ Store(construct(Heap, ex))
    /\ origin' = Append(origin, Root)
    /\ lastCall' = Call("construct", alloc + 1, ex)
    /\ UNCHANGED <<order, extVars>>

\* p->get(): the call leaves the future as it is
Get(p) ==
    /\ lastCall' = Call("get", p, get(Heap, p))
    /\ trace' = <<>>
    /\ UNCHANGED <<state_, result_, callbacks_, errorCallbacks_, results,
                   completed, settled, tasks, order, origin, fired, handled,
                   extVars>>

NextExecutor ==
    \/ \E ex \in Executors : Construct(ex)
    \/ \E p \in Futures, v \in Values : Resolve(p, v)
    \/ \E p \in Futures : Reject(p, ReentrantError)
    \/ \E p \in Futures, n \in ThenHandlers : Then(p, n)
    \/ \E p \in Futures, n \in CatchHandlers : Catch(p, n)
    \/ \E p \in Futures : Get(p)

SpecExecutor == Init /\ [][NextExecutor]_vars

\* ------------------------------------------------- Promise::all scenario
Roots == {p \in Futures : origin[p].kind = "root"}
Aggregates == {p \in Futures : origin[p].kind = "all"}
InputLists == UNION {[1..n -> Roots] : n \in 0..MaxInputs}

NewInput ==
    /\ Cardinality(Roots) < MaxInputs
    /\ Store(NewFuture(Heap))
    /\ origin' = Append(origin, Root)
    /\ lastCall' = Call("new", alloc + 1, PNone)
    /\ UNCHANGED <<order, extVars>>

All(fs) ==
    /\ Aggregates = {}
    /\ Store(all(Heap, fs))
    /\ origin' = Append(origin, Aggregate(fs))
                     \o allOrigins(fs, alloc + 1, alloc + 1, 1)
    /\ lastCall' = Call("all", alloc + 1, PNone)
    /\ UNCHANGED <<order, extVars>>

NextAll ==
    \/ NewInput
    \/ \E fs \in InputLists : All(fs)
    \/ \E p \in Futures, v \in Values : Resolve(p, v)
    \/ \E p \in Futures, e \in Errors : Reject(p, e)

SpecAll == Init /\ [][NextAll]_vars

\* ------------------------------------------------ Promise::race scenario
Races == {p \in Futures : origin[p].kind = "race"}

Race(fs) ==
    /\ Races = {}
    /\ Store(race(Heap, fs))
    /\ origin' = Append(origin, RaceFuture(fs))
                     \o raceOrigins(fs, alloc + 1, alloc + 1, 1)
    /\ lastCall' = Call("race", alloc + 1, PNone)
    /\ UNCHANGED <<order, extVars>>

\* resolve and reject of a source future that is still Pending, noting the
\* order of settlement.
ResolveInput(p, v) ==
    /\ origin[p].kind = "root"
    /\ state_[p] = "Pending"
    /\ Store(resolve(Heap, p, PVal(v)))
    /\ origin' = origin
    /\ lastCall' = Call("resolve", p, PVal(v))
    /\ order' = Append(order, p)
    /\ UNCHANGED extVars

RejectInput(p, e) ==
    /\ origin[p].kind = "root"
    /\ state_[p] = "Pending"
    /\ Store(reject(Heap, p, PErr(e)))
    /\ origin' = origin
    /\ lastCall' = Call("reject", p, PErr(e))
    /\ order' = Append(order, p)
    /\ UNCHANGED extVars

NextRace ==
    \/ NewInput
    \/ \E fs \in InputLists : Race(fs)
    \/ \E p \in Futures, v \in Values : ResolveInput(p, v)
    \/ \E p \in Futures, e \in Errors : RejectInput(p, e)

SpecRace == Init /\ [][NextRace]_vars

\* --------------------------------------------------------- Task scenario
TaskFutures == {t \in Futures : origin[t].kind = "task"}

\* The application calls a coroutine that awaits f.
Spawn(f, b) ==
    /\ alloc < MaxFutures
    /\ Store(spawn(Heap, f, b))
    /\ origin' = Append(origin, TaskFuture(f, b))
    /\ lastCall' = Call("spawn", f, PNone)
    /\ UNCHANGED <<order, extVars>>

NextTask ==
    \/ NewPromise
    \/ \E p \in Futures, v \in Values : Resolve(p, v)
    \/ \E p \in Futures, e \in Errors : Reject(p, e)
    \/ \E f \in Futures, b \in TaskBodies : Spawn(f, b)

SpecTask == Init /\ [][NextTask]_vars

\* ------------------------------- Promise::race with producer threads
\* race() has been called on MaxThreads Pending inputs; thread t settles
\* input t.  Everything a thread touches is its own (its input and the two
\* futures derived from it) except the settled flag and the race future,
\* so the steps below are the accesses to those two.

\* std::atomic<bool>::compare_exchange_strong as a plain store.
compare_exchange_strong_blindStore(f, expected, desired) ==
    [ok |-> TRUE, flag |-> desired]

\* std::atomic<bool>::compare_exchange_strong(expected, desired).
compare_exchange_strong(f, expected, desired) ==
    [ok |-> f = expected, flag |-> IF f = expected THEN desired ELSE f]

\* Thread t calls resolve or reject on its input; the continuation race()
\* registered is about to run.
SettleOwnInput(t, o) ==
    /\ tpc[t] = "idle"
    /\ tout' = [tout EXCEPT ![t] = o]
    /\ tpc' = [tpc EXCEPT ![t] = "cas"]
    /\ UNCHANGED <<flag, rstate, rresult, winners, writes, futureVars, valueVars, recordVars>>

\* if (settled->compare_exchange_strong(expected, true))
CompareExchange(t) ==
    /\ tpc[t] = "cas"
    /\ LET r == compare_exchange_strong(flag, FALSE, TRUE)
       IN /\ flag' = r.flag
          /\ winners' = IF r.ok THEN winners \cup {t} ELSE winners
          /\ tpc' = [tpc EXCEPT ![t] = IF r.ok THEN "check" ELSE "done"]
    /\ UNCHANGED <<tout, rstate, rresult, writes, futureVars, valueVars, recordVars>>

\* resultPromise->resolve/reject: if (state_ != Pending) return;
CheckPending(t) ==
    /\ tpc[t] = "check"
    /\ tpc' = [tpc EXCEPT ![t] = IF rstate = "Pending" THEN "state" ELSE "done"]
    /\ UNCHANGED <<tout, flag, rstate, rresult, winners, writes, futureVars, valueVars, recordVars>>

\* state_ = Fulfilled / Rejected
WriteState(t) ==
    /\ tpc[t] = "state"
    /\ rstate' = IF tout[t].tag = "value" THEN "Fulfilled" ELSE "Rejected"
    /\ writes' = writes + 1
    /\ tpc' = [tpc EXCEPT ![t] = "result"]
    /\ UNCHANGED <<tout, flag, rresult, winners, futureVars, valueVars, recordVars>>

\* result_ = value / error, and the (empty) queue is drained and cleared
WriteResult(t) ==
    /\ tpc[t] = "result"
    /\ rresult' = tout[t]
    /\ tpc' = [tpc EXCEPT ![t] = "done"]
    /\ UNCHANGED <<tout, flag, rstate, winners, writes, futureVars, valueVars, recordVars>>

NextRaceThreads ==
    \/ \E t \in Threads, o \in Outcomes : SettleOwnInput(t, o)
    \/ \E t \in Threads : CompareExchange(t)
    \/ \E t \in Threads : CheckPending(t)
    \/ \E t \in Threads : WriteState(t)
    \/ \E t \in Threads : WriteResult(t)

SpecRaceThreads == Init /\ [][NextRaceThreads]_vars

\* ------------------------------------------ operations on the any objects
ValueOf(loc) == IF loc = "a" THEN va ELSE vb

\* a = any(v)  or  b = any(v)
Assign(loc, v) ==
    /\ va' = IF loc = "a" THEN v ELSE va
    /\ vb' = IF loc = "b" THEN v ELSE vb
    /\ copied' = FALSE
    /\ vcall' = NoCall
    /\ UNCHANGED <<futureVars, threadVars, recordVars>>

\* b = a: any& operator=(const any&) = default copies the variant and,
\* with it, the vector or map it holds
Copy ==
    /\ vb' = va
    /\ copied' = TRUE
    /\ vcall' = NoCall
    /\ UNCHANGED <<va, futureVars, threadVars, recordVars>>

\* a + b
Plus ==
    /\ vcall' = [NoCall EXCEPT !.op = "+", !.l = "a", !.r = "b",
                               !.res = anyPlus(va, vb)]
    /\ UNCHANGED <<va, vb, copied, futureVars, threadVars, recordVars>>

\* a * n, a / n, a - n, a % n
Arith(op, n) ==
    /\ vcall' = [NoCall EXCEPT !.op = op, !.rhs = n,
                               !.res = anyArith(op, va, n)]
    /\ UNCHANGED <<va, vb, copied, futureVars, threadVars, recordVars>>

\* l == r for two of the any objects (l == l included)
Equals(l, r) ==
    /\ vcall' = [NoCall EXCEPT !.op = "==", !.l = l, !.r = r,
                               !.ok = anyEquals(l, ValueOf(l), r, ValueOf(r))]
    /\ UNCHANGED <<va, vb, copied, futureVars, threadVars, recordVars>>

\* a[string(key)]
IndexString(key) ==
    /\ vcall' = [NoCall EXCEPT !.op = "[string]", !.key = key,
                               !.res = indexString(va, key)]
    /\ UNCHANGED <<va, vb, copied, futureVars, threadVars, recordVars>>

\* a[n] for a number n
IndexNumber(n) ==
    /\ vcall' = [NoCall EXCEPT !.op = "[number]", !.rhs = n,
                               !.res = indexNumber(va, n)]
    /\ UNCHANGED <<va, vb, copied, futureVars, threadVars, recordVars>>

\* a[i] for an int i
IndexInt(i) ==
    /\ vcall' = [NoCall EXCEPT !.op = "[int]", !.rhs = Fin(i, 1),
                               !.res = indexInt(va, i)]
    /\ UNCHANGED <<va, vb, copied, futureVars, threadVars, recordVars>>

\* std::get<array<any>>(x.variant()).push(v) on a or b
Push(loc, v) ==
    /\ ValueOf(loc).tag = "Sequence"
    /\ Len(ValueOf(loc).elems) < MaxElems
    /\ va' = IF loc = "a" THEN push(va, v) ELSE va
    /\ vb' = IF loc = "b" THEN push(vb, v) ELSE vb
    /\ vcall' = [NoCall EXCEPT !.op = "push", !.l = loc]
    /\ UNCHANGED <<copied, futureVars, threadVars, recordVars>>

\* std::get<object>(x.variant()).set(key, value) on a or b
SetProperty(loc, key, slot) ==
    /\ ValueOf(loc).tag = "Record"
    /\ va' = IF loc = "a" THEN setProperty(va, key, slot) ELSE va
    /\ vb' = IF loc = "b" THEN setProperty(vb, key, slot) ELSE vb
    /\ vcall' = [NoCall EXCEPT !.op = "set", !.l = loc, !.key = key]
    /\ UNCHANGED <<copied, futureVars, threadVars, recordVars>>

\* delete_property(x, key) on a or b
DeleteProperty(loc, key) ==
    /\ va' = IF loc = "a" THEN delete_property(va, key).val ELSE va
    /\ vb' = IF loc = "b" THEN delete_property(vb, key).val ELSE vb
    /\ vcall' = [NoCall EXCEPT !.op = "delete", !.l = loc, !.key = key,
                               !.ok = delete_property(ValueOf(loc), key).result]
    /\ UNCHANGED <<copied, futureVars, threadVars, recordVars>>

IntInputs == -1..1

NextValue ==
    \/ \E loc \in AnyObjects, v \in InputValues : Assign(loc, v)
    \/ Copy
    \/ Plus
    \/ \E op \in ArithOps, n \in NumberInputs : Arith(op, n)
    \/ \E l \in AnyObjects, r \in AnyObjects : Equals(l, r)
    \/ \E key \in LookupKeys : IndexString(key)
    \/ \E n \in NumberInputs : IndexNumber(n)
    \/ \E i \in IntInputs : IndexInt(i)
    \/ \E loc \in AnyObjects, v \in ElemInputs : Push(loc, v)
    \/ \E loc \in AnyObjects, key \in Keys, slot \in SlotInputs :
           SetProperty(loc, key, slot)
    \/ \E loc \in AnyObjects, key \in Keys : DeleteProperty(loc, key)

SpecValue == Init /\ [][NextValue]_vars

\* ------------------------------ operations on one any object (SpecSingle)
PushInputs == {Number(One), Number(Zero), Text(<<"x">>)}
MethodCalls ==
    ((Methods \ {"reduce", "includes"}) \X Predicates \X {undefined})
    \cup ({"reduce"} \X Reducers \X {Number(Zero), Text(<<>>)})
    \cup ({"includes"} \X {"none"} \X {Number(One), Text(<<"x">>)})

\* a.map(f), a.filter(f), a.reduce(f, arg), a.forEach(f), a.find(f),
\* a.findIndex(f), a.some(f), a.every(f), a.includes(arg)
Method(method, f, arg) ==
    /\ LET r == anyMethod(method, va, f, arg)
       IN  vcall' = [NoCall EXCEPT !.op = method, !.fn = f, !.arg = arg,
                                   !.res = r.res, !.ok = r.ok,
                                   !.calls = r.calls]
    /\ UNCHANGED <<va, vb, copied, futureVars, threadVars, recordVars>>

\* slice arguments: every index of an array and one position beyond, on
\* both sides of zero
SliceArgs == (0 - MaxElems - 1) .. (MaxElems + 1)
SliceVia == {"any", "array"}

\* a.slice(start) (any::slice) or
\* std::get<array<any>>(a.variant()).slice(start) (array<T>::slice)
Slice(via, start) ==
    /\ via = "array" => va.tag = "Sequence"
    /\ vcall' = [NoCall EXCEPT
                   !.op = "slice", !.fn = via, !.start = start, !.nargs = 1,
                   !.res = IF via = "any"
                           THEN anySlice(va, start)
                           ELSE Sequence(arraySlice(va.elems, SizeT(start)))]
    /\ UNCHANGED <<va, vb, copied, futureVars, threadVars, recordVars>>

\* a.slice(start, end), through any or on the array itself
SliceTo(via, start, end) ==
    /\ via = "array" => va.tag = "Sequence"
    /\ vcall' = [NoCall EXCEPT
                   !.op = "slice", !.fn = via, !.start = start, !.end = end,
                   !.nargs = 2,
                   !.res = IF via = "any"
                           THEN anySliceTo(va, start, end)
                           ELSE Sequence(arraySliceTo(va.elems, SizeT(start),
                                                      SizeT(end)))]
    /\ UNCHANGED <<va, vb, copied, futureVars, threadVars, recordVars>>

\* static_cast<bool>(a), to_boolean(a), toBoolean(a)
Coerce(fn) ==
    /\ vcall' = [NoCall EXCEPT !.op = "coerce", !.fn = fn,
                               !.ok = coerce(fn, va)]
    /\ UNCHANGED <<va, vb, copied, futureVars, threadVars, recordVars>>

NextSingle ==
    \/ \E fn \in Coercions : Coerce(fn)
    \/ \E v \in InputValues : Assign("a", v)
    \/ \E v \in PushInputs : Push("a", v)
    \/ \E c \in MethodCalls : Method(c[1], c[2], c[3])
    \/ \E via \in SliceVia, start \in SliceArgs : Slice(via, start)
    \/ \E via \in SliceVia, start \in SliceArgs, end \in SliceArgs :
          SliceTo(via, start, end)

SpecSingle == Init /\ [][NextSingle]_vars

\* ======================================================================
\* js::object and its prototype chain (SpecRecord)
\* ======================================================================
MaxObjects == 2      \* objects the application allocates

\* An allocated object: its own properties and the identity its
\* prototype_ points to, 0 for a null pointer.
heapObject(proto) == [props |-> NoProps, proto |-> proto]
ObjIds == 1..Len(objects)

\* The object H[id] with the objects its prototype_ pointers lead to.
RECURSIVE deref(_, _)
deref(H, id) ==
    [props |-> H[id].props,
     proto |-> IF H[id].proto = 0 THEN <<>> ELSE <<deref(H, H[id].proto)>>]

\* object::hasOwnProperty
hasOwnProperty(o, key) == key \in DOMAIN o.props

\* object::get<T>(key), T being the type stored: own properties only, and
\* std::runtime_error("Property not found") for any other key
objectGet(o, key) ==
    IF key \in DOMAIN o.props
    THEN [returned |-> TRUE, val |-> o.props[key].val]
    ELSE [returned |-> FALSE, val |-> undefined]

\* object::defineProperty: properties_[key] = value
defineProperty(o, key, value) == set(o, key, Slot("any", value))

\* object::deleteProperty: properties_.erase(key)
deleteProperty(o, key) == remove(o, key).obj

\* delete_op(object&, const string&)
delete_op(o, property) == [obj |-> deleteProperty(o, property), result |-> TRUE]

\* object() through std::make_shared
NewObject ==
    /\ Len(objects) < MaxObjects
    /\ objects' = Append(objects, heapObject(0))
    /\ ocall' = OCall("new", Len(objects) + 1, <<>>, FALSE, undefined)
    /\ UNCHANGED <<futureVars, threadVars, valueVars>>

\* object::create(proto)
CreateObject(proto) ==
    /\ Len(objects) < MaxObjects
    /\ objects' = Append(objects, heapObject(proto))
    /\ ocall' = OCall("create", Len(objects) + 1, <<>>, FALSE, undefined)
    /\ UNCHANGED <<futureVars, threadVars, valueVars>>

\* objects[id]->set(key, number(1))
SetOwn(id, key) ==
    /\ objects' = [objects EXCEPT ![id] = set(@, key, Slot("number", Number(One)))]
    /\ ocall' = OCall("set", id, key, FALSE, Number(One))
    /\ UNCHANGED <<futureVars, threadVars, valueVars>>

DefineKeys == {<<"0">>}

\* objects[id]->defineProperty(key, any(2))
DefineOwn(id, key) ==
    /\ objects' = [objects EXCEPT ![id] = defineProperty(@, key, Number(Fin(2, 1)))]
    /\ ocall' = OCall("defineProperty", id, key, FALSE, Number(Fin(2, 1)))
    /\ UNCHANGED <<futureVars, threadVars, valueVars>>

\* hasOwnProperty, has, hasProperty, operator[] and get on objects[id]
Lookup(op, id, key) ==
    /\ ocall' =
         IF op = "hasOwnProperty"
         THEN OCall(op, id, key, hasOwnProperty(objects[id], key), undefined)
         ELSE IF op = "has"
         THEN OCall(op, id, key, has(objects[id], key), undefined)
         ELSE IF op = "hasProperty"
         THEN OCall(op, id, key, hasProperty(deref(objects, id), key), undefined)
         ELSE IF op = "[]"
         THEN OCall(op, id, key, TRUE, objectIndex(deref(objects, id), key))
         ELSE OCall(op, id, key, objectGet(objects[id], key).returned,
                    objectGet(objects[id], key).val)
    /\ UNCHANGED <<objects, futureVars, threadVars, valueVars>>

LookupOps == {"hasOwnProperty", "has", "hasProperty", "[]", "get"}

\* objects[id]->remove(key)
RemoveOwn(id, key) ==
    /\ objects' = [objects EXCEPT ![id] = remove(@, key).obj]
    /\ ocall' = OCall("remove", id, key, remove(objects[id], key).erased, undefined)
    /\ UNCHANGED <<futureVars, threadVars, valueVars>>

\* delete_op(*objects[id], key)
DeleteOp(id, key) ==
    /\ objects' = [objects EXCEPT ![id] = delete_op(@, key).obj]
    /\ ocall' = OCall("delete_op", id, key, delete_op(objects[id], key).result, undefined)
    /\ UNCHANGED <<futureVars, threadVars, valueVars>>

NextRecord ==
    \/ NewObject
    \/ \E proto \in ObjIds : CreateObject(proto)
    \/ \E id \in ObjIds, key \in Keys : SetOwn(id, key)
    \/ \E id \in ObjIds, key \in DefineKeys : DefineOwn(id, key)
    \/ \E op \in LookupOps, id \in ObjIds, key \in Keys : Lookup(op, id, key)
    \/ \E id \in ObjIds, key \in Keys : RemoveOwn(id, key)
    \/ \E id \in ObjIds, key \in Keys : DeleteOp(id, key)

SpecRecord == Init /\ [][NextRecord]_vars

\* ======================================================== properties

Settled(p) == state_[p] # "Pending"
IsSettleCall(c) == c.op \in {"resolve", "reject"}
SettledAs(c) == IF c.op = "resolve" THEN "Fulfilled" ELSE "Rejected"

\* The futures derived from p by then or catch_, in the order of the calls.
DerivedFrom(p) ==
    SelectSeq([d \in 1..alloc |-> d],
              LAMBDA d : origin[d].kind \in {"then", "catch"} /\ origin[d].src = p)

\* The continuation of each kind that the call creating d registered.
OkClosure(d) ==
    IF origin[d].kind = "then" THEN ThenOk(d, origin[d].h) ELSE CatchOk(d)
ErrClosure(d) ==
    IF origin[d].kind = "then" THEN ThenErr(d) ELSE CatchErr(d, origin[d].h)

\* The continuations of one kind registered on p, in registration order.
Registered(p, ok) ==
    [i \in 1..Len(DerivedFrom(p)) |->
        IF ok THEN OkClosure(DerivedFrom(p)[i]) ELSE ErrClosure(DerivedFrom(p)[i])]

\* The continuations of p that a call ran, with their arguments, in order.
RanOn(t, p) == SelectSeq(t, LAMBDA x : x.on = p)

\* C1: settle-once. A resolve or reject on a Pending future sets its state
\* and payload to those of the call; a resolve or reject on a settled future
\* changes nothing at all; no step changes the state or the payload of a
\* settled future.
C1_SettleOnce ==
    [][/\ \A p \in Futures :
            Settled(p) => state_'[p] = state_[p] /\ result_'[p] = result_[p]
       /\ IsSettleCall(lastCall') =>
            LET p == lastCall'.p
            IN IF state_[p] = "Pending"
               THEN /\ state_'[p] = SettledAs(lastCall')
                    /\ result_'[p] = lastCall'.arg
               ELSE /\ UNCHANGED <<state_, result_, callbacks_, errorCallbacks_,
                                   fired, handled>>
                    /\ trace' = <<>>]_vars

\* C1 witness: the latest call was a resolve or reject that lost: the future
\* holds another payload than the one the call carried.
C1_Witness ==
    /\ IsSettleCall(lastCall)
    /\ Settled(lastCall.p)
    /\ result_[lastCall.p] # lastCall.arg

\* C2: when a Pending future is settled, the continuations of the matching
\* kind registered on it are exactly those run by the settling call, each
\* with the payload, in registration order.
C2_DrainInOrder ==
    [][\A p \in Futures :
         (state_[p] = "Pending" /\ Settled(p)') =>
            LET ok == state_'[p] = "Fulfilled"
                ran == RanOn(trace', p)
            IN /\ [i \in 1..Len(ran) |-> ran[i].cb] = Registered(p, ok)
               /\ \A i \in 1..Len(ran) : ran[i].arg = result_'[p]]_vars

\* C2 witness: a resolve or reject ran two continuations queued on its
\* future.
C2_Witness ==
    /\ IsSettleCall(lastCall)
    /\ Len(RanOn(trace, lastCall.p)) = 2
    /\ result_[lastCall.p] = lastCall.arg

\* The step is a then or catch_ call on a future that is already settled.
LateRegistration ==
    /\ lastCall'.op \in {"then", "catch"}
    /\ alloc' = alloc + 1
    /\ Settled(lastCall'.p)

\* C3: a continuation registered on a settled future is not queued; the one
\* of the matching kind runs at once, with the stored value or error, and
\* the one of the other kind never runs.
C3_LateRegistrationFires ==
    /\ [][LateRegistration =>
            LET p == lastCall'.p
                d == alloc + 1
                ok == state_[p] = "Fulfilled"
            IN /\ callbacks_'[p] = callbacks_[p]
               /\ errorCallbacks_'[p] = errorCallbacks_[p]
               /\ Len(RanOn(trace', p)) = 1
               /\ trace'[1].on = p
               /\ trace'[1].cb.next = d
               /\ IsOkKind(trace'[1].cb) = ok
               /\ trace'[1].arg = result_[p]]_vars
    /\ [](\A d \in Futures :
            origin[d].kind \in {"then", "catch"} =>
               /\ state_[origin[d].src] = "Fulfilled" => fired[d].err = 0
               /\ state_[origin[d].src] = "Rejected" => fired[d].ok = 0)

\* C3 witness: then or catch_ was just called on a settled future and its
\* continuation ran with the stored payload.
C3_Witness ==
    /\ lastCall.op \in {"then", "catch"}
    /\ Settled(lastCall.p)
    /\ Len(trace) >= 1
    /\ trace[1].on = lastCall.p
    /\ trace[1].arg = result_[lastCall.p]

\* C4: a future that is not Pending holds no continuation in either queue.
C4_QueuesEmptyOnceSettled ==
    \A p \in Futures :
        Settled(p) => callbacks_[p] = <<>> /\ errorCallbacks_[p] = <<>>

ThenDerived == {d \in Futures : origin[d].kind = "then"}
CatchDerived == {d \in Futures : origin[d].kind = "catch"}
Src(d) == origin[d].src
\* What the handler given to the call creating d does with the payload of
\* the source.
Outcome(d) == UserBehaviour(origin[d].h.name, result_[Src(d)])

\* C5: for d = f.then(h), while f is Pending d is Pending and h has not run;
\* once f is Fulfilled with v, h has run exactly once, on v, and d is
\* Fulfilled with what h returned or Rejected with what h raised.
C5_ThenRunsHandler ==
    \A d \in ThenDerived :
        /\ state_[Src(d)] = "Pending" =>
              state_[d] = "Pending" /\ handled[d] = <<>>
        /\ state_[Src(d)] = "Fulfilled" =>
              /\ handled[d] = <<result_[Src(d)]>>
              /\ IF Outcome(d).raised
                 THEN state_[d] = "Rejected" /\ result_[d] = PErr(Outcome(d).err)
                 ELSE state_[d] = "Fulfilled" /\ result_[d] = Outcome(d).ret

\* C5 witness: one fulfilled future with two then-derived futures, one whose
\* handler returned and one whose handler raised.
C5_Witness ==
    \E d1, d2 \in ThenDerived :
        /\ Src(d1) = Src(d2)
        /\ state_[Src(d1)] = "Fulfilled"
        /\ origin[d1].h.name = "inc" /\ state_[d1] = "Fulfilled"
        /\ origin[d2].h.name = "raise" /\ state_[d2] = "Rejected"

\* C6: for d = f.then(h), once f is Rejected with e, h has not run and d is
\* Rejected with e.
C6_ThenPropagatesRejection ==
    \A d \in ThenDerived :
        state_[Src(d)] = "Rejected" =>
            /\ handled[d] = <<>>
            /\ state_[d] = "Rejected"
            /\ result_[d] = result_[Src(d)]

\* C6 witness: a reject just settled a future that has a then-derived
\* future, which now holds the error of the call.
C6_Witness ==
    /\ lastCall.op = "reject"
    /\ result_[lastCall.p] = lastCall.arg
    /\ \E d \in ThenDerived :
          Src(d) = lastCall.p /\ result_[d] = lastCall.arg

\* C7: for d = f.catch_(h), once f is Rejected with e, h has run on e, and
\* if h raised e2 then d is Rejected with e2; once f is Fulfilled with v,
\* h has not run and d is Fulfilled with v.
C7_CatchRunsHandler ==
    \A d \in CatchDerived :
        /\ state_[Src(d)] = "Rejected" =>
              /\ handled[d] = <<result_[Src(d)]>>
              /\ Outcome(d).raised =>
                    state_[d] = "Rejected" /\ result_[d] = PErr(Outcome(d).err)
        /\ state_[Src(d)] = "Fulfilled" =>
              /\ handled[d] = <<>>
              /\ state_[d] = "Fulfilled"
              /\ result_[d] = result_[Src(d)]

\* C7 witness: a rejected future with a catch-derived future whose handler
\* ran on the error and raised.
C7_Witness ==
    \E d \in CatchDerived :
        /\ state_[Src(d)] = "Rejected"
        /\ origin[d].h.name = "raise"
        /\ handled[d] = <<result_[Src(d)]>>
        /\ result_[d] = PErr(HandlerError)

\* C8: once a future has settled, every future derived from it by then or
\* catch_ is settled too.
C8_DerivedSettlesWithSource ==
    \A d \in ThenDerived \cup CatchDerived : Settled(Src(d)) => Settled(d)

Inputs(a) == origin[a].inputs
InputSet(a) == {Inputs(a)[i] : i \in 1..Len(Inputs(a))}
RejectedInputs(a) == {i \in 1..Len(Inputs(a)) : state_[Inputs(a)[i]] = "Rejected"}
FirstOf(S) == CHOOSE i \in S : \A j \in S : i <= j

\* C9: the aggregate of all(fs) is Fulfilled exactly when every input is
\* Fulfilled (at once for the empty list), and its result then holds, at
\* each index, the value of the input at that index.
C9_AllCollectsByIndex ==
    \A a \in Aggregates :
        /\ state_[a] = "Fulfilled" <=>
              \A i \in 1..Len(Inputs(a)) : state_[Inputs(a)[i]] = "Fulfilled"
        /\ state_[a] = "Fulfilled" =>
              result_[a] = PVec([i \in 1..Len(Inputs(a)) |->
                                     result_[Inputs(a)[i]].value])

\* C9 witness: an aggregate over two distinct inputs holding different
\* values became Fulfilled by a resolve of its first input, so its second
\* input fulfilled first.
C9_Witness ==
    \E a \in Aggregates :
        /\ Len(Inputs(a)) = 2
        /\ state_[a] = "Fulfilled"
        /\ result_[a].vec[1] # result_[a].vec[2]
        /\ lastCall.op = "resolve"
        /\ lastCall.p = Inputs(a)[1]
        /\ trace # <<>>

SettledInputs(r) == SelectSeq(order, LAMBDA p : p \in InputSet(r))

InsideSettle == {t \in Threads : tpc[t] \in {"check", "state", "result"}}
PastCas == {t \in Threads : tpc[t] \notin {"idle", "cas"}}

\* C12: under every interleaving of the producer threads at most one
\* compare-and-swap succeeds, and one has succeeded once any thread is past
\* it; only the winner is ever inside resolve/reject of the race future, so
\* no two threads are; state_ of the race future is written at most once,
\* and once the winner has returned the race future holds its outcome.
C12_SingleWinner ==
    /\ Cardinality(winners) <= 1
    /\ PastCas # {} => Cardinality(winners) = 1
    /\ InsideSettle \subseteq winners
    /\ Cardinality(InsideSettle) <= 1
    /\ writes <= 1
    /\ \A t \in winners :
          tpc[t] = "done" =>
             /\ writes = 1
             /\ rresult = tout[t]
             /\ rstate = (IF tout[t].tag = "value" THEN "Fulfilled" ELSE "Rejected")

\* C12 witness: every thread has finished, with different outcomes, and the
\* race future holds the outcome of the one winner, which was not the first
\* thread.
C12_Witness ==
    /\ \A t \in Threads : tpc[t] = "done"
    /\ tout[1] # tout[2]
    /\ winners = {2}
    /\ rresult = tout[2]

Awaited(t) == tasks[t].awaits
\* What the body of task t does with the payload of the future it awaits.
BodyOutcome(t) == TaskBody(tasks[t].body, result_[Awaited(t)])

\* C13: the future of a task is Pending and untouched while the awaited
\* future is Pending; once the computation has finished the frame has
\* settled its future exactly once: Fulfilled with the returned value, or
\* Rejected with the raised error.
C13_TaskSettlesOnce ==
    \A t \in TaskFutures :
        /\ state_[Awaited(t)] = "Pending" =>
              state_[t] = "Pending" /\ tasks[t].settles = 0
        /\ Settled(Awaited(t)) =>
              /\ tasks[t].settles = 1
              /\ IF BodyOutcome(t).raised
                 THEN state_[t] = "Rejected" /\ result_[t] = BodyOutcome(t).err
                 ELSE state_[t] = "Fulfilled" /\ result_[t] = BodyOutcome(t).ret

\* C13 witness: a task whose body raised after its await yielded a value,
\* and a task whose body returned.
C13_Witness ==
    \E t1, t2 \in TaskFutures :
        /\ state_[Awaited(t1)] = "Fulfilled"
        /\ result_[t1] = PErr(HandlerError)
        /\ state_[t2] = "Fulfilled"
        /\ tasks[t1].settles = 1 /\ tasks[t2].settles = 1

\* C14: a task suspends exactly when the future it awaits is Pending at
\* the co_await; while that future is Pending the task has not been
\* resumed; once it is settled a suspended task has been resumed exactly
\* once (so within the settling call), a task that did not suspend never,
\* and the await has yielded the stored value or error.
C14_AwaitResumesOnce ==
    /\ [][(lastCall'.op = "spawn" /\ alloc' = alloc + 1) =>
            tasks'[alloc + 1].suspended = (state_[lastCall'.p] = "Pending")]_vars
    /\ [](\A t \in TaskFutures :
            /\ state_[Awaited(t)] = "Pending" =>
                  /\ tasks[t].suspended
                  /\ tasks[t].resumes = 0
                  /\ tasks[t].observed = PNone
            /\ Settled(Awaited(t)) =>
                  /\ tasks[t].resumes = (IF tasks[t].suspended THEN 1 ELSE 0)
                  /\ fired[t].ok + fired[t].err = tasks[t].resumes
                  /\ tasks[t].observed = result_[Awaited(t)])

\* C14 witness: a reject just settled a future that a suspended task
\* awaited; the task was resumed once through the reject continuation and
\* its await yielded the error of the call.
C14_Witness ==
    /\ lastCall.op = "reject"
    /\ \E t \in TaskFutures :
          /\ Awaited(t) = lastCall.p
          /\ tasks[t].suspended
          /\ tasks[t].resumes = 1
          /\ fired[t].err = 1
          /\ tasks[t].observed = lastCall.arg

\* ======================================================================
\* Claims about js::any (SpecValue)
\* ======================================================================

\* C15: a + b is total over every pair of variants: Number + Number is the
\* numeric sum; when either operand is Text the result is Text, the left
\* operand's to-string followed by the right operand's ("x" + 1 is "x1",
\* 1 + "2" is "12"); otherwise the result is a Number, the sum of the
\* operands coerced to Number, never Undefined (1 + true is 2).
C15_AdditionCoerces ==
    vcall.op = "+" =>
        /\ vcall.res.tag # "Undefined"
        /\ (va.tag = "Number" /\ vb.tag = "Number")
               => vcall.res = Number(dAdd(va.num, vb.num))
        /\ (va.tag = "Text" \/ vb.tag = "Text") => vcall.res.tag = "Text"
        /\ (va.tag # "Text" /\ vb.tag # "Text") => vcall.res.tag = "Number"
        /\ (va = Text(<<"x">>) /\ vb = Number(One))
               => vcall.res = Text(<<"x", "1">>)
        /\ (va = Number(One) /\ vb = Text(<<"2">>))
               => vcall.res = Text(<<"1", "2">>)
        /\ (va = Number(One) /\ vb = Boolean(TRUE))
               => vcall.res = Number(Fin(2, 1))

\* C16: a - n, a * n, a / n and a % n coerce a non-numeric left operand to
\* the Number 0 and always yield a Number, never Undefined.
C16_ArithmeticCoerces ==
    vcall.op \in ArithOps =>
        /\ vcall.res.tag = "Number"
        /\ vcall.res = anyArith(vcall.op,
                                IF va.tag = "Number" THEN va ELSE Number(Zero),
                                vcall.rhs)

\* Two of the any objects denote the same container when they are the same
\* object or one is an unreassigned copy of the other.
SameContainer(l, r) == l = r \/ copied

\* C17: a == b is strict-kind: values of different variants are never
\* equal; Boolean, Number and Text are equal exactly when their values are;
\* Sequence and Record are equal exactly when both denote the same
\* container, so a value equals a copy of itself.
C17_EqualityByKindAndIdentity ==
    vcall.op = "==" =>
        LET x == ValueOf(vcall.l)
            y == ValueOf(vcall.r)
        IN  /\ x.tag # y.tag => ~vcall.ok
            /\ (x.tag = y.tag /\ x.tag = "Boolean")
                   => (vcall.ok <=> x.bool = y.bool)
            /\ (x.tag = y.tag /\ x.tag = "Number")
                   => (vcall.ok <=> dEq(x.num, y.num))
            /\ (x.tag = y.tag /\ x.tag = "Text")
                   => (vcall.ok <=> x.text = y.text)
            /\ (x.tag = y.tag /\ x.tag \in {"Sequence", "Record"})
                   => (vcall.ok <=> SameContainer(vcall.l, vcall.r))

\* C18: after b = a with a holding a Sequence or Record, both denote one
\* storage: whatever property sets, property deletes and element pushes
\* are then made through a or through b, the two show the same elements
\* and the same properties.
C18_CopyAliasesStorage ==
    (copied /\ va.tag \in {"Sequence", "Record"}) =>
        /\ vb.tag = va.tag
        /\ vb.elems = va.elems
        /\ vb.obj = va.obj

\* C19: v[key] never raises: on a Record it is the stored property when
\* key is present on the Record or anywhere on its prototype chain and
\* Undefined otherwise; on Undefined, Null, Boolean, Number or Text it is
\* Undefined.
C19_PropertyAccessDelegates ==
    vcall.op = "[string]" =>
        /\ va.tag = "Record"
              => vcall.res = IF hasProperty(va.obj, vcall.key)
                             THEN objectIndex(va.obj, vcall.key)
                             ELSE undefined
        /\ va.tag \in {"Undefined", "Null", "Boolean", "Number", "Text"}
              => vcall.res = undefined

\* The value of a string of decimal digits.
RECURSIVE DecimalValue(_)
DecimalValue(ds) ==
    IF ds = <<>> THEN 0
    ELSE 10 * DecimalValue(SubSeq(ds, 1, Len(ds) - 1))
         + (CHOOSE d \in 0..9 : DigitChars[d + 1] = ds[Len(ds)])

\* s is the canonical decimal form of the integer n: an optional "-", then
\* digits only, no leading zero, no "-0", no fraction.
IsCanonicalDecimal(s, n) ==
    LET neg == s # <<>> /\ s[1] = "-"
        ds == IF neg THEN Tail(s) ELSE s
    IN  /\ ds # <<>>
        /\ \A i \in 1..Len(ds) : \E d \in 1..10 : DigitChars[d] = ds[i]
        /\ Len(ds) > 1 => ds[1] # "0"
        /\ ~(neg /\ ds = <<"0">>)
        /\ (IF neg THEN -1 ELSE 1) * DecimalValue(ds) = n

IsIntegerKeyCall ==
    /\ vcall.op \in {"[int]", "[number]"}
    /\ vcall.rhs.cls = "fin"
    /\ vcall.rhs.den = 1

RECURSIVE FoldLeft(_, _, _)
FoldLeft(f, init, es) ==
    IF es = <<>> THEN init
    ELSE applyReducer(f, FoldLeft(f, init, SubSeq(es, 1, Len(es) - 1)),
                      es[Len(es)])

Accepted(f, es) == {i \in 1..Len(es) : applyPredicate(f, es[i])}

\* C21: on a value that holds no Sequence the array-delegating methods
\* invoke no callback and answer a default: map and filter the empty
\* Sequence, find Undefined, reduce its initial value, some and includes
\* false, every true, forEach nothing; on a Sequence each answers what the
\* method means on the elements held.
C21_MethodsDelegateOrDefault ==
    LET m == vcall.op
        f == vcall.fn
        es == va.elems
    IN  /\ (m \in Methods /\ va.tag # "Sequence") =>
            /\ vcall.calls = <<>>
            /\ (m \in {"map", "filter"}) => vcall.res = Sequence(<<>>)
            /\ (m = "find") => vcall.res = undefined
            /\ (m = "reduce") => vcall.res = vcall.arg
            /\ (m \in {"some", "includes"}) => ~vcall.ok
            /\ (m = "every") => vcall.ok
        /\ (m \in Methods /\ va.tag = "Sequence") =>
            /\ (m = "map") => vcall.res =
                   Sequence([i \in 1..Len(es) |->
                                Boolean(applyPredicate(f, es[i]))])
            /\ (m = "filter") => vcall.res =
                   Sequence(SelectSeq(es, LAMBDA e : applyPredicate(f, e)))
            /\ (m = "find") => vcall.res =
                   IF Accepted(f, es) = {} THEN undefined
                   ELSE es[CHOOSE i \in Accepted(f, es) :
                              \A j \in Accepted(f, es) : i <= j]
            /\ (m = "reduce") => vcall.res = FoldLeft(f, vcall.arg, es)
            /\ (m = "some") => (vcall.ok <=> Accepted(f, es) # {})
            /\ (m = "every") => (vcall.ok <=> Accepted(f, es) = 1..Len(es))
            /\ (m = "includes") =>
                   (vcall.ok <=> \E i \in 1..Len(es) :
                        /\ es[i] = vcall.arg
                        /\ es[i].tag \notin {"Sequence", "Record"}
                        /\ ~(es[i].tag = "Number" /\ es[i].num = NaN))
            /\ (m = "forEach") => vcall.calls = es

\* every() on a Text has answered true without calling its predicate.
C21_Witness ==
    /\ vcall.op = "every"
    /\ va.tag = "Text"
    /\ vcall.ok
    /\ vcall.calls = <<>>

\* ======================================================================
\* Claims about js::object (SpecRecord)
\* ======================================================================
\* The identities on the prototype chain of id, id first.
RECURSIVE ChainOf(_, _)
ChainOf(H, id) ==
    <<id>> \o (IF H[id].proto = 0 THEN <<>> ELSE ChainOf(H, H[id].proto))

\* The positions on the chain of the latest call's object whose object has
\* the call's key as an own property.
Owners ==
    {i \in 1..Len(ChainOf(objects, ocall.id)) :
        ocall.key \in DOMAIN objects[ChainOf(objects, ocall.id)[i]].props}
Nearest == ChainOf(objects, ocall.id)[CHOOSE i \in Owners : \A j \in Owners : i <= j]

\* C22: hasOwnProperty(k) is true exactly when k is an own property, whatever
\* the prototype holds; hasProperty(k) and get(k) succeed exactly when some
\* object on the chain has own k, get returning the value of the nearest.
C22_LookupWalksChain ==
    /\ ocall.op = "hasOwnProperty" =>
           (ocall.ok <=> ocall.key \in DOMAIN objects[ocall.id].props)
    /\ ocall.op = "hasProperty" => (ocall.ok <=> Owners # {})
    /\ ocall.op = "get" =>
           /\ ocall.ok <=> Owners # {}
           /\ Owners # {} => ocall.res = objects[Nearest].props[ocall.key].val

\* C23: set(k, v) writes only the own properties of the object it is called
\* on: afterwards that object has own k with value v, its other own
\* properties and its prototype link are as before, and every other
\* object, its prototype included, is unchanged.
C23_SetWritesOwnOnly ==
    [][ocall'.op \in {"set", "defineProperty"} =>
          LET id == ocall'.id
              k == ocall'.key
          IN  /\ k \in DOMAIN objects'[id].props
              /\ objects'[id].props[k].val = ocall'.res
              /\ objectGet(objects'[id], k) = [returned |-> TRUE, val |-> ocall'.res]
              /\ DOMAIN objects'[id].props = DOMAIN objects[id].props \cup {k}
              /\ \A k2 \in DOMAIN objects[id].props \ {k} :
                     objects'[id].props[k2] = objects[id].props[k2]
              /\ objects'[id].proto = objects[id].proto
              /\ Len(objects') = Len(objects)
              /\ \A j \in ObjIds \ {id} : objects'[j] = objects[j]]_vars

\* A child has just been given an own property of value 2 under a key its
\* prototype holds with value 1, and the prototype still holds 1.
C23_Witness ==
    /\ ocall.op = "defineProperty"
    /\ objects[ocall.id].proto # 0
    /\ objects[ocall.id].props[ocall.key].val = Number(Fin(2, 1))
    /\ ocall.key \in DOMAIN objects[objects[ocall.id].proto].props
    /\ objects[objects[ocall.id].proto].props[ocall.key].val = Number(One)

\* C24: every delete reports success: afterwards the key is no own property
\* of the object, its other own properties are as before (all of them when
\* the key was no own property), no other object has changed, and the call
\* has returned true.
C24_DeleteReportsSuccess ==
    [][ocall'.op \in {"remove", "delete_op"} =>
          LET id == ocall'.id
              k == ocall'.key
          IN  /\ ocall'.ok
              /\ DOMAIN objects'[id].props = DOMAIN objects[id].props \ {k}
              /\ \A k2 \in DOMAIN objects'[id].props :
                     objects'[id].props[k2] = objects[id].props[k2]
              /\ objects'[id].proto = objects[id].proto
              /\ \A j \in ObjIds \ {id} : objects'[j] = objects[j]]_vars

\* C25: slice(start, end) leaves the Sequence as it was and returns the
\* elements at positions [s, e), where s and e are start and end with a
\* negative index replaced by length + index and then clamped into
\* [0, length], end defaulting to length; the result is empty when s >= e.
sliceNorm(i, length) ==
    LET j == IF i < 0 THEN length + i ELSE i
    IN  IF j < 0 THEN 0 ELSE IF j > length THEN length ELSE j

C25_SliceNormalisesAndClamps ==
    [][(vcall'.op = "slice" /\ va.tag = "Sequence") =>
          LET length == Len(va.elems)
              s == sliceNorm(vcall'.start, length)
              e == IF vcall'.nargs = 1 THEN length
                   ELSE sliceNorm(vcall'.end, length)
          IN  /\ va' = va
              /\ vcall'.res =
                    Sequence(IF s >= e THEN <<>> ELSE SubSeq(va.elems, s + 1, e))]_vars

\* The futures made by then or catch_ on p: each stands for the pair of
\* continuations its call registered on p.
DerivedOn(p) ==
    {d \in Futures : origin[d].kind \in {"then", "catch"} /\ origin[d].src = p}

\* C26: over the whole life of a future, whatever then, catch_, resolve and
\* reject calls are made, every continuation registered on it is invoked at
\* most once, and its fulfil continuations and its reject continuations are
\* never both invoked, although a queue entry of the kind that did not
\* match may outlive the settlement.
C26_ContinuationsRunAtMostOnce ==
    \A p \in Futures :
        /\ \A d \in DerivedOn(p) : fired[d].ok <= 1 /\ fired[d].err <= 1
        /\ \A d1, d2 \in DerivedOn(p) :
               ~(fired[d1].ok > 0 /\ fired[d2].err > 0)

\* C26 witness: a future was fulfilled and its fulfil continuation ran, its
\* reject continuation is still queued, and reject has since been called on
\* it.
C26_Witness ==
    /\ lastCall.op = "reject"
    /\ state_[lastCall.p] = "Fulfilled"
    /\ errorCallbacks_[lastCall.p] # <<>>
    /\ \E d \in DerivedOn(lastCall.p) : fired[d].ok = 1 /\ fired[d].err = 0

\* The handler of a continuation calls then or catch_ on its own future.
Registers(cb) == cb.h.type = "reentrant" /\ cb.h.name \in {"then", "catch"}

\* The closure that a then or catch_ call made from inside a handler
\* registers for the outcome ok, for the future d the call made.
InnerClosure(name, d, ok) ==
    IF name = "then"
    THEN (IF ok THEN ThenOk(d, InnerThenHandler) ELSE ThenErr(d))
    ELSE (IF ok THEN CatchOk(d) ELSE CatchErr(d, InnerCatchHandler))

\* C27: reentrant use during a drain is safe. When a Pending future is
\* settled, the continuations run from its queue are exactly those queued
\* when the drain began, each once and in order, and all of them, like every
\* continuation run on the future in that call, are of the kind of the
\* settlement and receive its payload, also when one of them calls resolve
\* or reject on the same future: the state and payload stay those of the
\* first settlement and the other queue is left as it was. A continuation
\* registered on the future from inside a running continuation is run at
\* once, right after the handler that registered it started, with the same
\* payload, and is not left in a queue.
C27_ReentrantUseIsSafe ==
    [][/\ \A p \in Futures :
            (state_[p] = "Pending" /\ state_'[p] # "Pending") =>
               LET ok == state_'[p] = "Fulfilled"
                   ran == RanOn(trace', p)
                   queued == SelectSeq(ran, LAMBDA x : x.cb.next <= alloc)
               IN /\ [i \in 1..Len(queued) |-> queued[i].cb] = Registered(p, ok)
                  /\ \A i \in 1..Len(ran) :
                        /\ IsOkKind(ran[i].cb) = ok
                        /\ \/ ran[i].arg = result_'[p]
                           \/ ran[i].arg = PVoid /\ result_'[p] = PNone
                  /\ p = lastCall'.p =>
                        /\ state_'[p] = SettledAs(lastCall')
                        /\ result_'[p] = lastCall'.arg
                  /\ callbacks_'[p] = IF ok THEN <<>> ELSE callbacks_[p]
                  /\ errorCallbacks_'[p] = IF ok THEN errorCallbacks_[p] ELSE <<>>
       /\ \A i \in 1..Len(trace') :
            Registers(trace'[i].cb) =>
               LET p == trace'[i].on
               IN /\ i < Len(trace')
                  /\ trace'[i + 1].on = p
                  /\ trace'[i + 1].arg = trace'[i].arg
                  /\ trace'[i + 1].cb.next > alloc
                  /\ trace'[i + 1].cb =
                        InnerClosure(trace'[i].cb.h.name, trace'[i + 1].cb.next,
                                     state_'[p] = "Fulfilled")
                  /\ \A j \in 1..Len(callbacks_'[p]) :
                        callbacks_'[p][j].next <= alloc
                  /\ \A j \in 1..Len(errorCallbacks_'[p]) :
                        errorCallbacks_'[p][j].next <= alloc]_vars

\* C27 witness: resolve drained a queue in which one continuation called
\* reject on the future being settled and another called then on it; the
\* future holds the value of the resolve call.
C27_Witness ==
    /\ lastCall.op = "resolve"
    /\ state_[lastCall.p] = "Fulfilled"
    /\ result_[lastCall.p] = lastCall.arg
    /\ \E i, j \in 1..Len(trace) :
          /\ trace[i].on = lastCall.p
          /\ trace[j].on = lastCall.p
          /\ trace[i].cb.h = ReentrantHandler("reject", lastCall.p)
          /\ trace[j].cb.h = ReentrantHandler("then", lastCall.p)

\* C28: in every reachable state the state tag of a future and its stored
\* payload agree: a Pending future holds no payload, a Fulfilled one a
\* value, a Rejected one an error; so get() never reads a payload of the
\* wrong kind: on a Pending future it fails with the pending error, on a
\* Rejected one it re-raises the stored error, on a Fulfilled one it
\* returns the stored value.
C28_StateAndPayloadAgree ==
    /\ \A p \in Futures :
          /\ state_[p] = "Pending" => result_[p] = PNone
          /\ state_[p] = "Fulfilled" => result_[p].tag = "value"
          /\ state_[p] = "Rejected" => result_[p].tag = "error"
    /\ lastCall.op = "get" =>
          LET p == lastCall.p
          IN /\ lastCall.arg # PErr(BadVariantAccess)
             /\ state_[p] = "Pending" => lastCall.arg = PErr(PendingError)
             /\ state_[p] = "Rejected" =>
                   lastCall.arg = result_[p] /\ lastCall.arg.tag = "error"
             /\ state_[p] = "Fulfilled" =>
                   lastCall.arg = result_[p] /\ lastCall.arg.tag = "value"

\* C28 witness: get() has just re-raised the error of a future that a
\* rejected source passed on to it, while another future is still Pending
\* and a third holds a value.
C28_Witness ==
    /\ lastCall.op = "get"
    /\ state_[lastCall.p] = "Rejected"
    /\ origin[lastCall.p].kind = "then"
    /\ lastCall.arg = result_[lastCall.p]
    /\ \E q \in Futures : state_[q] = "Pending"
    /\ \E q \in Futures : state_[q] = "Fulfilled"

\* The first call an executor makes, or PNone when it makes none.
FirstCall(ex) == IF ex.calls = <<>> THEN PNone ELSE ex.calls[1]

\* C29: a future built from an executor is settled by what the executor
\* does first. If the executor raises before calling resolve or reject, the
\* future is Rejected with the raised error; if it calls resolve(v) or
\* reject(e), the future has that first outcome whatever the executor calls
\* or raises afterwards; if it returns without calling either, the future
\* is Pending.
C29_ExecutorFirstOutcomeWins ==
    [][lastCall'.op = "construct" =>
          LET p == lastCall'.p
              ex == lastCall'.arg
              first == FirstCall(ex)
          IN /\ p = alloc + 1
             /\ alloc' = p
             /\ (first = PNone /\ ex.raises) =>
                   state_'[p] = "Rejected" /\ result_'[p] = PErr(HandlerError)
             /\ (first = PNone /\ ~ex.raises) =>
                   state_'[p] = "Pending" /\ result_'[p] = PNone
             /\ first.tag = "value" =>
                   state_'[p] = "Fulfilled" /\ result_'[p] = first
             /\ first.tag = "error" =>
                   state_'[p] = "Rejected" /\ result_'[p] = first
             /\ \A q \in Futures :
                   state_'[q] = state_[q] /\ result_'[q] = result_[q]]_vars

\* C29 witness: an executor called resolve(v), then reject(e), and then
\* raised; the future it built is Fulfilled with v.
C29_Witness ==
    /\ lastCall.op = "construct"
    /\ Len(lastCall.arg.calls) = 2
    /\ lastCall.arg.calls[1].tag = "value"
    /\ lastCall.arg.calls[2].tag = "error"
    /\ lastCall.arg.raises
    /\ state_[lastCall.p] = "Fulfilled"
    /\ result_[lastCall.p] = lastCall.arg.calls[1]

\* The values the three coercions are to map to false.
Falsy(v) ==
    \/ v.tag \in {"Undefined", "Null"}
    \/ v.tag = "Boolean" /\ ~v.bool
    \/ v.tag = "Number" /\ (v.num = Zero \/ v.num = NaN)
    \/ v.tag = "Text" /\ v.text = <<>>

\* C30: the explicit bool conversion of any, to_boolean(any) and
\* toBoolean(any) give the same result on every value: false for
\* Undefined, Null, false, Number 0, Number NaN and the empty Text, true
\* for every other value, every Sequence and Record included.
C30_CoercionsAgree ==
    /\ vcall.op = "coerce" => vcall.ok = ~Falsy(va)
    /\ \A f, g \in Coercions : coerce(f, va) = coerce(g, va)

====
